---- MODULE Spec2Model ----
(***************************************************************************)
(* FTDC metrics decoder of b1ron/ftdc.                                     *)
(*                                                                         *)
(* src/decompressor.js holds two definitions of uncompress.  The second   *)
(* one (lines 186-220) is the exported one that src/index.js imports; it  *)
(* is modelled by Spec.  The first one (lines 20-105) is modelled by      *)
(* SpecV1.  Both start from the parsed reference document and the tail of *)
(* the inflated chunk (the two counts and the varint stream).             *)
(***************************************************************************)
EXTENDS Integers, Sequences, FiniteSets, TLC

-----------------------------------------------------------------------------
(* JavaScript values.                                                      *)
(*                                                                         *)
(* A value is a record [t, a, b, c, s, d]: t is its type, s the text of a  *)
(* string, d the entries of a nested document, and a, b, c the limbs of a  *)
(* number or BigInt: value = a * 2^56 + b * 2^28 + c with 0 <= b, c < 2^28 *)
(* and a any integer (floor representation, so -1 is a = -1 and            *)
(* b = c = 2^28 - 1).  A BigInt is unbounded; it is in the signed 64-bit   *)
(* range iff -128 <= a <= 127.  The numbers of the inputs stay below 2^53, *)
(* where the arithmetic of a JavaScript number is exact.                   *)

Limb == 2^28

Val(t, a, b, c, s, d) == [t |-> t, a |-> a, b |-> b, c |-> c, s |-> s, d |-> d]

Big(a, b, c) == Val("bigint", a, b, c, "", <<>>)

Undefined == Val("undefined", 0, 0, 0, "", <<>>)

NaN == Val("NaN", 0, 0, 0, "", <<>>)

BigNorm(a, b, c) ==
  LET b1 == b + (c \div Limb)
  IN  Big(a + (b1 \div Limb), b1 % Limb, c % Limb)

BigOf(n) == BigNorm(0, 0, n)

BigAdd(x, y) == BigNorm(x.a + y.a, x.b + y.b, x.c + y.c)

BigIsZero(x) == x.a = 0 /\ x.b = 0 /\ x.c = 0

BigIsPos(x) == x.a > 0 \/ (x.a = 0 /\ (x.b > 0 \/ x.c > 0))

\* The value reduced to the signed 64-bit range (two's complement wrap).
Wrap64(x) == Big(((x.a + 128) % 256) - 128, x.b, x.c)

InInt64(x) == x.a >= -128 /\ x.a <= 127

\* A number, and x + y of two values that are numbers, strings, NaN or
\* undefined: a sum of numbers, a concatenation when either is a string.
Num(n) == [BigOf(n) EXCEPT !.t = "number"]

\* String(x) of a number: the decimal numeral when the value fits the lowest
\* limb, its limbs otherwise.
NumText(x) ==
  IF x.t = "string" THEN x.s
  ELSE IF x.t = "NaN" THEN "NaN"
  ELSE IF x.t = "undefined" THEN "undefined"
  ELSE IF x.a = 0 /\ x.b = 0 THEN ToString(x.c) \o x.s
  ELSE ToString(x.a) \o ":" \o ToString(x.b) \o ":" \o ToString(x.c) \o x.s

NumAdd(x, y) ==
  IF x.t = "string" \/ y.t = "string"
  THEN Val("string", 0, 0, 0, NumText(x) \o NumText(y), <<>>)
  ELSE IF x.t = "number" /\ y.t = "number"
  THEN [BigAdd(x, y) EXCEPT !.t = "number"]
  ELSE NaN

\* A number with a fractional part: n + 0.5 or the like, the text of the
\* fraction kept in s (an integer has s = "").
Frac(n, f) == [Num(n) EXCEPT !.s = f]

\* true and false, null, and the Date of a number of milliseconds.
Bool(b) == Val("boolean", 0, 0, IF b THEN 1 ELSE 0, "", <<>>)

Null == Val("null", 0, 0, 0, "", <<>>)

DateOf(ms) == [BigOf(ms) EXCEPT !.t = "date"]

\* A JavaScript array is a sequence; index i (from 0) is element i + 1.
ArrGet(arr, i) == IF i >= 0 /\ i < Len(arr) THEN arr[i + 1] ELSE Undefined

\* arr[i] = v, the array growing with holes when i is past its end.
ArrSet(arr, i, v) ==
  [k \in 1..(IF i + 1 > Len(arr) THEN i + 1 ELSE Len(arr)) |->
     IF k = i + 1 THEN v ELSE IF k <= Len(arr) THEN arr[k] ELSE Undefined]

-----------------------------------------------------------------------------
(* The buffer reader of utils.js (createBufferReader): little-endian u32   *)
(* reads and unsigned LEB128 varints over a byte sequence and a position.  *)

readUint32LE(buf, p) ==
  IF p + 4 > Len(buf)
  THEN [err |-> "OutOfRange", val |-> 0, pos |-> p]
  ELSE [err |-> "none",
        val |-> buf[p + 1] + buf[p + 2] * 2^8 + buf[p + 3] * 2^16 + buf[p + 4] * 2^24,
        pos |-> p + 4]

isEmpty(buf, p) == p >= Len(buf)

\* The 7-bit groups of the varint at position p, least significant first.
RECURSIVE VarintGroups(_, _, _)
VarintGroups(buf, p, k) ==
  IF k = 10 THEN [err |-> "VarintTooLong", g |-> <<>>, pos |-> p]
  ELSE IF p >= Len(buf) THEN [err |-> "OutOfRange", g |-> <<>>, pos |-> p]
  ELSE LET byte == buf[p + 1]
       IN  IF byte < 128
           THEN [err |-> "none", g |-> <<byte>>, pos |-> p + 1]
           ELSE LET r == VarintGroups(buf, p + 1, k + 1)
                IN  [r EXCEPT !.g = <<byte % 128>> \o r.g]

Grp(g, k) == IF k <= Len(g) THEN g[k] ELSE 0

\* decode_varint() -> u64: the groups put together, cut to 64 bits.
decodeVarint(buf, p) ==
  LET r == VarintGroups(buf, p, 0)
      g == r.g
  IN  IF r.err # "none"
      THEN [err |-> r.err, val |-> Undefined, pos |-> p]
      ELSE [err |-> "none",
            val |-> Big(Grp(g, 9) + (Grp(g, 10) % 2) * 2^7,
                        Grp(g, 5) + Grp(g, 6) * 2^7 + Grp(g, 7) * 2^14 + Grp(g, 8) * 2^21,
                        Grp(g, 1) + Grp(g, 2) * 2^7 + Grp(g, 3) * 2^14 + Grp(g, 4) * 2^21),
            pos |-> r.pos]

-----------------------------------------------------------------------------
(* Documents.  A document is the sequence of its entries in enumeration    *)
(* order; an entry is [key, value].                                        *)

Str(s) == Val("string", 0, 0, 0, s, <<>>)

Obj(d) == Val("object", 0, 0, 0, "", d)

\* An array value: its entries have the keys "0", "1", ... in order.
Arr(d) == Val("array", 0, 0, 0, "", d)

Entry(k, v) == [key |-> k, value |-> v]

HasKey(obj, k) == \E x \in 1..Len(obj) : obj[x].key = k

\* The keys that are array indices ("0", "1", ...), and the index of one;
\* -1 for every other key.
MaxIndexKey == 3

KeyIndex(k) ==
  IF \E n \in 0..MaxIndexKey : ToString(n) = k
  THEN CHOOSE n \in 0..MaxIndexKey : ToString(n) = k
  ELSE -1

\* obj[k] = v.  An existing key keeps its place.  An object enumerates its
\* array-index keys first, in ascending order, and then its other keys in
\* the order they were added: a new index key goes before the first entry
\* that is not a smaller index key, every other new key goes last.
ObjSet(obj, k, v) ==
  IF HasKey(obj, k)
  THEN [x \in 1..Len(obj) |-> IF obj[x].key = k THEN Entry(k, v) ELSE obj[x]]
  ELSE IF KeyIndex(k) < 0 THEN Append(obj, Entry(k, v))
  ELSE LET before == SelectSeq(obj, LAMBDA e : KeyIndex(e.key) >= 0 /\ KeyIndex(e.key) < KeyIndex(k))
           after == SelectSeq(obj, LAMBDA e : KeyIndex(e.key) < 0 \/ KeyIndex(e.key) > KeyIndex(k))
       IN  before \o <<Entry(k, v)>> \o after

\* delete obj[k]
ObjDelete(obj, k) == SelectSeq(obj, LAMBDA e : e.key # k)

\* The strings of the inputs that match /^-?\d+(\.\d+)?$/.  Those without a
\* fraction are the decimal numerals of Numerals, each with the number it
\* denotes; FractionStrings are those with one.
Numerals == {42, -7, 20}

NumberOfString ==
  [s \in {ToString(n) : n \in Numerals} |-> CHOOSE n \in Numerals : ToString(n) = s]

\* Number(s) of the strings with a fraction.
FractionOfString == ("1.5" :> Frac(1, ".5"))

FractionStrings == DOMAIN FractionOfString

numberStringPattern(s) == s \in DOMAIN NumberOfString \/ s \in FractionStrings

\* The text readTimestamp gives for a Timestamp of seconds t and ordinal i.
TimestampText(t, i) == "Timestamp(" \o ToString(t) \o ", " \o ToString(i) \o ")"

TimestampPairs == {<<1700000000, 3>>, <<100, 3>>}

\* The text readObjectId gives for the twelve bytes 00 .. 00 01.
ObjectIdText == "ObjectId(000000000000000000000001)"

\* value.match(/\d+/g) of the strings of the inputs that start with
\* "Timestamp": the numerals in the string, <<>> standing for null (no match).
TimestampNumbers ==
  [s \in {TimestampText(p[1], p[2]) : p \in TimestampPairs} |->
     CHOOSE p \in TimestampPairs : TimestampText(p[1], p[2]) = s]
  @@ ("Timestamp" :> <<>> @@ "Timestamp 1 2 3" :> <<1, 2, 3>>)

startsWithTimestamp(s) == s \in DOMAIN TimestampNumbers

\* flattenObject(obj, path, result): [err, result].  value.constructor of
\* null throws a TypeError.
RECURSIVE flattenObject(_, _, _)
flattenObject(obj, path, result) ==
  IF obj = <<>> THEN [err |-> "none", result |-> result]
  ELSE LET e == Head(obj)
           p == IF path # "" THEN path \o "." \o e.key ELSE e.key
       IN  IF e.value.t = "null"
           THEN [err |-> "TypeError: Cannot read properties of null", result |-> result]
           ELSE IF e.value.t \in {"object", "array"}
           THEN LET inner == flattenObject(e.value.d, p, result)
                IN  IF inner.err # "none" THEN inner
                    ELSE flattenObject(Tail(obj), path, inner.result)
           ELSE flattenObject(Tail(obj), path, ObjSet(result, p, e.value))

isValid(value) ==
  IF value.t \in {"number", "date", "boolean"} THEN TRUE
  ELSE IF value.t # "string" THEN FALSE
  ELSE numberStringPattern(value.s) \/ startsWithTimestamp(value.s)

\* BigInt(value) of a valid leaf that is not a Timestamp string (line 317),
\* a Date being its getTime() (line 310): [err, val].  BigInt of a number
\* that is not an integer throws a RangeError, BigInt of a string that is
\* not an integer literal a SyntaxError.
ToBigInt(value) ==
  IF value.t \in {"number", "date", "boolean"}
  THEN IF value.s # ""
       THEN [err |-> "RangeError: cannot be converted to a BigInt", val |-> Undefined]
       ELSE [err |-> "none", val |-> Big(value.a, value.b, value.c)]
  ELSE IF value.s \in DOMAIN NumberOfString
  THEN [err |-> "none", val |-> BigOf(NumberOfString[value.s])]
  ELSE [err |-> "SyntaxError: Cannot convert to BigInt", val |-> Undefined]

\* The bases of the flattened reference, and the reference with the
\* discarded keys deleted: [err, result, obj].
RECURSIVE extractLoop(_, _, _)
extractLoop(keys, obj, result) ==
  IF keys = <<>> THEN [err |-> "none", result |-> result, obj |-> obj]
  ELSE LET e == Head(keys)
       IN  IF ~isValid(e.value)
           THEN extractLoop(Tail(keys), ObjDelete(obj, e.key), result)
           ELSE IF e.value.t = "string" /\ startsWithTimestamp(e.value.s)
           THEN LET numbers == TimestampNumbers[e.value.s]
                IN  IF numbers = <<>>  \* null.map
                    THEN [err |-> "TypeError: Cannot read properties of null (map)",
                          result |-> result, obj |-> obj]
                    ELSE extractLoop(Tail(keys), obj,
                                     result \o [k \in 1..Len(numbers) |-> BigOf(numbers[k])])
           ELSE LET v == ToBigInt(e.value)
                IN  IF v.err # "none"
                    THEN [err |-> v.err, result |-> result, obj |-> obj]
                    ELSE extractLoop(Tail(keys), obj, Append(result, v.val))

extractFromObj(obj) == extractLoop(obj, obj, <<>>)

-----------------------------------------------------------------------------
(* decodeDeltas, restoreSamples, iterateMetricSamples.                     *)

\* One pass of the while loop of decodeDeltas per call.
RECURSIVE decodeLoop(_, _, _, _)
decodeLoop(buf, p, zeroCount, deltas) ==
  IF isEmpty(buf, p) THEN [err |-> "none", deltas |-> deltas, pos |-> p]
  ELSE IF BigIsPos(zeroCount)
  THEN decodeLoop(buf, p, BigAdd(zeroCount, BigOf(-1)), Append(deltas, BigOf(0)))
  ELSE LET v == decodeVarint(buf, p)
       IN  IF v.err # "none" THEN [err |-> v.err, deltas |-> deltas, pos |-> p]
           ELSE IF BigIsZero(v.val)
           THEN LET k == decodeVarint(buf, v.pos)
                IN  IF k.err # "none"
                    THEN [err |-> k.err, deltas |-> deltas, pos |-> v.pos]
                    ELSE decodeLoop(buf, k.pos, k.val, Append(deltas, v.val))
           ELSE decodeLoop(buf, v.pos, zeroCount, Append(deltas, v.val))

decodeDeltas(buf, p) == decodeLoop(buf, p, BigOf(0), <<>>)

\* restoreFirst without the base of the metric.
restoreFirstNoBase(deltas, metrics, i, offset) == deltas[offset + 1]

\* restored[offset] of metric i (line 226).
restoreFirst(deltas, metrics, i, offset) == BigAdd(deltas[offset + 1], metrics[i + 1])

\* restored[index] for j >= 1 (line 234).
restoreNext(deltas, restored, index) == BigAdd(deltas[index + 1], deltas[index])

RECURSIVE restoreInner(_, _, _, _, _)
restoreInner(deltas, restored, offset, j, numS) ==
  IF j >= numS THEN [err |-> "none", restored |-> restored]
  ELSE LET index == offset + j
       IN  IF ArrGet(deltas, index) = Undefined \/ ArrGet(deltas, index - 1) = Undefined
           THEN [err |-> "RangeError", restored |-> restored]
           ELSE restoreInner(deltas,
                             ArrSet(restored, index, restoreNext(deltas, restored, index)),
                             offset, j + 1, numS)

RECURSIVE restoreOuter(_, _, _, _, _)
restoreOuter(deltas, metrics, restored, i, numS) ==
  IF i >= Len(metrics) THEN [err |-> "none", restored |-> restored]
  ELSE LET offset == i * numS
       IN  IF ArrGet(deltas, offset) = Undefined
           THEN [err |-> "TypeError", restored |-> restored]  \* undefined + BigInt
           ELSE LET r == restoreInner(deltas,
                           ArrSet(restored, offset, restoreFirst(deltas, metrics, i, offset)),
                           offset, 1, numS)
                IN  IF r.err # "none" THEN r
                    ELSE restoreOuter(deltas, metrics, r.restored, i + 1, numS)

restoreSamples(deltas, metrics, numS) == restoreOuter(deltas, metrics, <<>>, 0, numS)

\* sampleAt reading restored sample-major (index i * numMetrics + j).
sampleAtSampleMajor(restored, numM, numS, i) ==
  [j \in 1..numM |-> ArrGet(restored, i * numM + (j - 1))]

\* The sample the generator yields at step i (lines 243-248).
sampleAt(restored, numM, numS, i) ==
  [j \in 1..numM |-> ArrGet(restored, (j - 1) * numS + i)]

-----------------------------------------------------------------------------
(* The first definition of uncompress (lines 20-105) and its helpers.      *)

\* isNaN(value) || value === '' of a string value (line 114).
isNaNOrEmpty(s) == ~numberStringPattern(s) \/ s = ""

\* stripNonNumericFields(doc): [err, doc].  A string that starts with
\* "Timestamp" stays; value.constructor of null throws a TypeError.
RECURSIVE stripNonNumericFields(_)
stripNonNumericFields(doc) ==
  IF doc = <<>> THEN [err |-> "none", doc |-> <<>>]
  ELSE LET e == Head(doc)
           rest == stripNonNumericFields(Tail(doc))
           keep(x) == IF rest.err # "none" THEN rest
                      ELSE [err |-> "none", doc |-> <<x>> \o rest.doc]
       IN  IF e.value.t = "string"
           THEN IF startsWithTimestamp(e.value.s) THEN keep(e)
                ELSE IF isNaNOrEmpty(e.value.s) THEN rest
                ELSE keep(e)
           ELSE IF e.value.t \in {"null", "undefined"}
           THEN [err |-> "TypeError: Cannot read properties of null", doc |-> doc]
           ELSE IF e.value.t \in {"object", "array"}
           THEN LET inner == stripNonNumericFields(e.value.d)
                IN  IF inner.err # "none" THEN [err |-> inner.err, doc |-> doc]
                    ELSE keep(Entry(e.key, [e.value EXCEPT !.d = inner.doc]))
           ELSE keep(e)

\* Number(value) of a leaf.
ToNumber(value) ==
  IF value.t = "number" THEN value
  ELSE IF value.t = "boolean" THEN Num(value.c)
  ELSE IF value.t = "null" THEN Num(0)
  ELSE IF value.t = "string" /\ value.s \in DOMAIN NumberOfString
  THEN Num(NumberOfString[value.s])
  ELSE IF value.t = "string" /\ value.s \in FractionStrings
  THEN FractionOfString[value.s]
  ELSE NaN

\* extractMetricsFromDocument(doc, metrics): [err, metrics].  The numbers of
\* a Timestamp string are pushed as the strings match gives; the spread of
\* null (no match) and value.constructor of null throw a TypeError.
RECURSIVE extractMetricsFromDocument(_, _)
extractMetricsFromDocument(doc, metrics) ==
  IF doc = <<>> THEN [err |-> "none", metrics |-> metrics]
  ELSE LET v == Head(doc).value
       IN  IF v.t = "string" /\ startsWithTimestamp(v.s)
           THEN LET numbers == TimestampNumbers[v.s]
                IN  IF numbers = <<>>
                    THEN [err |-> "TypeError: numbers is not iterable", metrics |-> metrics]
                    ELSE extractMetricsFromDocument(
                           Tail(doc),
                           metrics \o [k \in 1..Len(numbers) |-> Str(ToString(numbers[k]))])
           ELSE IF v.t = "date"
           THEN extractMetricsFromDocument(Tail(doc), Append(metrics, [v EXCEPT !.t = "number"]))
           ELSE IF v.t \in {"null", "undefined"}
           THEN [err |-> "TypeError: Cannot read properties of null", metrics |-> metrics]
           ELSE IF v.t \in {"object", "array"}
           THEN LET inner == extractMetricsFromDocument(v.d, metrics)
                IN  IF inner.err # "none" THEN inner
                    ELSE extractMetricsFromDocument(Tail(doc), inner.metrics)
           ELSE extractMetricsFromDocument(Tail(doc), Append(metrics, ToNumber(v)))

\* updateFromArray(ref, doc, metrics, pos): [err, doc], the document doc
\* after the call.  Every write is doc[key] on the document passed in, also
\* in a nested call; pos is a parameter, so what a nested call adds to it is
\* lost on return.
RECURSIVE updateFromArray(_, _, _, _)
updateFromArray(refEntries, doc, metrics, p) ==
  IF refEntries = <<>> THEN [err |-> "none", doc |-> doc]
  ELSE LET e == Head(refEntries)
       IN  IF e.value.t = "string" /\ startsWithTimestamp(e.value.s)
           THEN updateFromArray(Tail(refEntries),
                                ObjSet(doc, e.key, ArrGet(metrics, p)), metrics, p + 2)
           ELSE IF e.value.t \in {"null", "undefined"}
           THEN [err |-> "TypeError: Cannot read properties of null", doc |-> doc]
           ELSE IF e.value.t \in {"object", "array"}
           THEN LET inner == updateFromArray(e.value.d, doc, metrics, p)
                IN  IF inner.err # "none" THEN inner
                    ELSE updateFromArray(Tail(refEntries), inner.doc, metrics, p)
           ELSE updateFromArray(Tail(refEntries),
                                ObjSet(doc, e.key, ArrGet(metrics, p)), metrics, p + 1)

\* The loop that decompresses the deltas (lines 62-76); k is i * sampleCount + j.
RECURSIVE decompressDeltas(_, _, _, _, _, _)
decompressDeltas(buf, p, k, total, zeroOutCount, deltas) ==
  IF k >= total THEN [err |-> "none", deltas |-> deltas, pos |-> p]
  ELSE IF BigIsPos(zeroOutCount)
  THEN decompressDeltas(buf, p, k + 1, total,
                        NumAdd(zeroOutCount, Num(-1)), ArrSet(deltas, k, Num(0)))
  ELSE LET v == decodeVarint(buf, p)
       IN  IF v.err # "none" THEN [err |-> v.err, deltas |-> deltas, pos |-> p]
           ELSE IF BigIsZero(v.val)
           THEN LET z == decodeVarint(buf, v.pos)
                IN  IF z.err # "none"
                    THEN [err |-> z.err, deltas |-> deltas, pos |-> v.pos]
                    ELSE decompressDeltas(buf, z.pos, k + 1, total,
                                          [z.val EXCEPT !.t = "number"],
                                          ArrSet(deltas, k, [v.val EXCEPT !.t = "number"]))
           ELSE decompressDeltas(buf, v.pos, k + 1, total, zeroOutCount,
                                 ArrSet(deltas, k, [v.val EXCEPT !.t = "number"]))

\* deltas[i * sampleCount] += metrics[i] for i from i up (lines 84-86).
RECURSIVE addBaseline(_, _, _, _, _)
addBaseline(deltas, metrics, i, metricsCount, sampleCount) ==
  IF i >= metricsCount THEN deltas
  ELSE addBaseline(ArrSet(deltas, i * sampleCount,
                          NumAdd(ArrGet(deltas, i * sampleCount), ArrGet(metrics, i))),
                   metrics, i + 1, metricsCount, sampleCount)

\* deltas[i * sampleCount + j] += deltas[i * sampleCount + j - 1] (lines 89-93).
RECURSIVE restoreCumulative(_, _, _, _, _)
restoreCumulative(deltas, i, j, metricsCount, sampleCount) ==
  IF i >= metricsCount THEN deltas
  ELSE IF j >= sampleCount THEN restoreCumulative(deltas, i + 1, 1, metricsCount, sampleCount)
  ELSE LET k == i * sampleCount + j
       IN  restoreCumulative(ArrSet(deltas, k, NumAdd(ArrGet(deltas, k), ArrGet(deltas, k - 1))),
                             i, j + 1, metricsCount, sampleCount)

\* metrics[j] = deltas[j * sampleCount + i] for every j (lines 97-99).
sampleMetrics(metrics, deltas, metricsCount, sampleCount, i) ==
  [j \in 1..(IF metricsCount > Len(metrics) THEN metricsCount ELSE Len(metrics)) |->
     IF j <= metricsCount THEN ArrGet(deltas, (j - 1) * sampleCount + i) ELSE metrics[j]]

-----------------------------------------------------------------------------
(* Inputs: the parsed reference document and the chunk tail.               *)

MaxMetrics == 2
MaxSamples == 3
MaxVarints == 4
MaxEmit == 4

\* The chunk bound of uncompress.
MaxProduct == 1000000

\* The varint of the u64 pattern of -2 (2^64 - 2).
Minus2 == <<254, 255, 255, 255, 255, 255, 255, 255, 255, 1>>

VarintSet == {<<0>>, <<1>>, Minus2}

RECURSIVE VarintStreams(_)
VarintStreams(n) ==
  IF n = 0 THEN {<<>>}
  ELSE LET S == VarintStreams(n - 1) IN S \cup {s \o v : s \in S, v \in VarintSet}

\* The streams of the two worked examples: 00 05 01 00 06 and 05 03 (-2).
StreamS4 == <<0, 5, 1, 0, 6>>
StreamS5 == <<5, 3>> \o Minus2

\* Every run count of the stream fits the lowest limb, so that expanding the
\* runs is a bounded computation.
RECURSIVE RunsShort(_, _)
RunsShort(buf, p) ==
  IF isEmpty(buf, p) THEN TRUE
  ELSE LET v == decodeVarint(buf, p)
       IN  IF v.err # "none" THEN TRUE
           ELSE IF ~BigIsZero(v.val) THEN RunsShort(buf, v.pos)
           ELSE LET k == decodeVarint(buf, v.pos)
                IN  IF k.err # "none" THEN TRUE
                    ELSE k.val.a = 0 /\ k.val.b = 0 /\ RunsShort(buf, k.pos)

\* Five zeros written as five varints 0, and as the pair 0, 4.
StreamFiveZeros == <<0, 0, 0, 0, 0>>
StreamZeroRun == <<0, 4>>

Streams ==
  {s \in VarintStreams(MaxVarints)
          \cup {StreamS4, StreamS5, StreamFiveZeros, StreamZeroRun} : RunsShort(s, 0)}

U32(n) == <<n % 256, (n \div 256) % 256, (n \div 65536) % 256, (n \div 16777216) % 256>>

Counts == ((0..MaxMetrics) \X (0..MaxSamples)) \cup {<<1001, 1000>>, <<3, 1>>}

RefEmpty == <<>>
RefM == <<Entry("m", Num(100))>>
RefNested == <<Entry("a", Num(7)), Entry("s", Str("x")), Entry("n", Obj(<<Entry("b", Num(-3))>>))>>

\* A leaf in a nested document and a leaf after it; a Timestamp and a leaf
\* after it.
RefAfter == <<Entry("n", Obj(<<Entry("b", Num(-3))>>)), Entry("c", Num(1))>>
RefTs == <<Entry("t", Str(TimestampText(100, 3))), Entry("c", Num(1))>>

References == {RefEmpty, RefM, RefNested, RefAfter, RefTs}

-----------------------------------------------------------------------------
(* State.                                                                  *)

VARIABLES
  pc,                 \* the place in uncompress
  err,                \* the error thrown, "none" while none is
  referenceDocument,  \* the parsed reference document
  buffer,             \* the chunk tail: N_metrics, N_samples, the varints
  pos,                \* the position of the reader
  ref,                \* the flattened reference
  numMetrics, numSamples,
  metrics,            \* the bases
  deltas,
  restored,
  emitted,            \* the samples yielded so far, in order
  data,               \* first definition: what the identifier data is bound to
  docs,               \* first definition: the array of documents it returns
  \* parseBSON (pc, err and buffer are its place, its error and its argument)
  options,            \* options.FTDC
  index,              \* the read position
  size, totalSize,
  object,             \* the object to return
  currentObj,         \* the container being filled: its path in object
  key, value,
  st,                 \* the stack of frames {currentObj, size}
  isArray,
  elementType,        \* the type byte of the element read last
  returned,           \* what parseBSON returned
  \* readFTDCFile (with pc, err, buffer, index, object, st, elementType)
  item,               \* the stack element being filled
  stackItem           \* whether the next pass pops the stack

ftdcVars == <<item, stackItem>>

bsonVars == <<options, index, size, totalSize, object, currentObj, key, value, st,
              isArray, elementType, returned, ftdcVars>>

decoderVars == <<referenceDocument, pos, ref, numMetrics, numSamples,
                 metrics, deltas, restored, emitted, data, docs>>

vars == <<pc, err, buffer, decoderVars, bsonVars>>

\* parseBSON is not running.
\* item before the first pop (let item;), by its level.
NoItem == [size |-> 0, level |-> -1, typed |-> FALSE, start |-> 0, length |-> 0]

FtdcIdle ==
  /\ item = NoItem
  /\ stackItem = TRUE

BsonIdle ==
  /\ FtdcIdle
  /\ options = FALSE
  /\ index = 0
  /\ size = 0
  /\ totalSize = 0
  /\ object = Obj(<<>>)
  /\ currentObj = <<>>
  /\ key = Undefined
  /\ value = Undefined
  /\ st = <<>>
  /\ isArray = FALSE
  /\ elementType = 0
  /\ returned = [kind |-> "nothing", bytes |-> <<>>]

Init ==
  /\ BsonIdle
  /\ pc = "parsed"
  /\ err = "none"
  /\ referenceDocument \in References
  /\ \E c \in Counts, s \in Streams : buffer = U32(c[1]) \o U32(c[2]) \o s
  /\ pos = 0
  /\ ref = <<>>
  /\ numMetrics = 0
  /\ numSamples = 0
  /\ metrics = <<>>
  /\ deltas = <<>>
  /\ restored = <<>>
  /\ emitted = <<>>
  /\ data = <<>>
  /\ docs = <<>>

Throw(e) == pc' = "threw" /\ err' = e

\* ref = flattenObject(ref) (line 201)
Flatten ==
  /\ UNCHANGED bsonVars
  /\ pc = "parsed"
  /\ LET r == flattenObject(referenceDocument, "", <<>>)
     IN  IF r.err # "none"
         THEN Throw(r.err) /\ UNCHANGED ref
         ELSE ref' = r.result /\ pc' = "flattened" /\ err' = err
  /\ UNCHANGED <<referenceDocument, buffer, pos, numMetrics, numSamples,
                 metrics, deltas, restored, emitted>>
  /\ UNCHANGED <<data, docs>>

\* numMetrics and numSamples read from the reader (lines 204-207)
ReadCounts ==
  /\ UNCHANGED bsonVars
  /\ pc = "flattened"
  /\ LET m == readUint32LE(buffer, pos)
         n == readUint32LE(buffer, m.pos)
     IN  IF m.err # "none" \/ n.err # "none"
         THEN Throw("OutOfRange") /\ UNCHANGED <<numMetrics, numSamples, pos>>
         ELSE /\ numMetrics' = m.val
              /\ numSamples' = n.val
              /\ pos' = n.pos
              /\ pc' = "counts"
              /\ err' = err
  /\ UNCHANGED <<referenceDocument, buffer, ref, metrics, deltas, restored, emitted>>
  /\ UNCHANGED <<data, docs>>

\* metrics = extractFromObj(ref) (line 209)
ExtractMetrics ==
  /\ UNCHANGED bsonVars
  /\ pc = "counts"
  /\ LET r == extractFromObj(ref)
     IN  /\ ref' = r.obj
         /\ IF r.err # "none"
            THEN Throw(r.err) /\ UNCHANGED metrics
            ELSE metrics' = r.result /\ pc' = "extracted" /\ err' = err
  /\ UNCHANGED <<referenceDocument, buffer, pos, numMetrics, numSamples,
                 deltas, restored, emitted>>
  /\ UNCHANGED <<data, docs>>

\* deltas = decodeDeltas(reader) (line 211)
DecodeDeltas ==
  /\ UNCHANGED bsonVars
  /\ pc = "extracted"
  /\ LET r == decodeDeltas(buffer, pos)
     IN  IF r.err # "none"
         THEN Throw(r.err) /\ UNCHANGED <<deltas, pos>>
         ELSE deltas' = r.deltas /\ pos' = r.pos /\ pc' = "decoded" /\ err' = err
  /\ UNCHANGED <<referenceDocument, buffer, ref, numMetrics, numSamples,
                 metrics, restored, emitted>>
  /\ UNCHANGED <<data, docs>>

\* restored = restoreSamples(deltas, metrics, numSamples) (line 212)
RestoreSamples ==
  /\ UNCHANGED bsonVars
  /\ pc = "decoded"
  /\ LET r == restoreSamples(deltas, metrics, numSamples)
     IN  IF r.err # "none"
         THEN Throw(r.err) /\ UNCHANGED restored
         ELSE restored' = r.restored /\ pc' = "restored" /\ err' = err
  /\ UNCHANGED <<referenceDocument, buffer, pos, ref, numMetrics, numSamples,
                 metrics, deltas, emitted>>
  /\ UNCHANGED <<data, docs>>

\* One step of the generator and of the loop that logs its sample
\* (lines 213-219); the loop index is the number of samples yielded.
YieldSample ==
  /\ UNCHANGED bsonVars
  /\ pc = "restored"
  /\ Len(emitted) < numSamples
  /\ Len(emitted) < MaxEmit
  /\ emitted' = Append(emitted, sampleAt(restored, numMetrics, numSamples, Len(emitted)))
  /\ UNCHANGED <<pc, err, referenceDocument, buffer, pos, ref, numMetrics,
                 numSamples, metrics, deltas, restored>>
  /\ UNCHANGED <<data, docs>>

\* The generator is exhausted and uncompress returns.
Return ==
  /\ UNCHANGED bsonVars
  /\ pc = "restored"
  /\ Len(emitted) >= numSamples
  /\ pc' = "done"
  /\ UNCHANGED <<err, referenceDocument, buffer, pos, ref, numMetrics, numSamples,
                 metrics, deltas, restored, emitted>>
  /\ UNCHANGED <<data, docs>>

Next ==
  \/ Flatten
  \/ ReadCounts
  \/ ExtractMetrics
  \/ DecodeDeltas
  \/ RestoreSamples
  \/ YieldSample
  \/ Return

Spec == Init /\ [][Next]_vars

-----------------------------------------------------------------------------
(* The exported uncompress over reference documents whose leaves are of     *)
(* every kind parseBSON stores: a number (whole or not), a boolean, a Date, *)
(* null, and the strings of a String, an ObjectId, a Long and a Timestamp.  *)

MaxLeaves == 2

LeafValues ==
  {Num(7), Frac(1, ".5"), Bool(TRUE), DateOf(1000), Null,
   Str("x"), Str("42"), Str("1.5"), Str(ObjectIdText),
   Str(TimestampText(1700000000, 3)), Str("Timestamp"), Str("Timestamp 1 2 3")}

LeafKey(k) == "k" \o ToString(k)

LeafDocs ==
  UNION {{[k \in 1..n |-> Entry(LeafKey(k), f[k])] : f \in [1..n -> LeafValues]} :
         n \in 1..MaxLeaves}

\* A chunk tail of one sample with a delta of 1 for every base there can be.
LeafTail(m) == U32(m) \o U32(1) \o [k \in 1..(3 * MaxLeaves) |-> 1]

InitLeaves ==
  /\ BsonIdle
  /\ pc = "parsed"
  /\ err = "none"
  /\ referenceDocument \in LeafDocs
  /\ \E m \in 1..MaxMetrics : buffer = LeafTail(m)
  /\ pos = 0
  /\ ref = <<>>
  /\ numMetrics = 0
  /\ numSamples = 0
  /\ metrics = <<>>
  /\ deltas = <<>>
  /\ restored = <<>>
  /\ emitted = <<>>
  /\ data = <<>>
  /\ docs = <<>>

SpecLeaves == InitLeaves /\ [][Next]_vars

-----------------------------------------------------------------------------
(* The first definition of uncompress.  referenceDocument and               *)
(* currentDocument name one object (line 49), and docs holds references to  *)
(* it, not copies: RootObject is that object and Deref gives what a         *)
(* reference shows, the present content of the object.                      *)

RootObject == "referenceDocument"

Deref(o) == referenceDocument

NumberVarintSet == {<<0>>, <<1>>, <<5>>}

RECURSIVE NumberStreams(_)
NumberStreams(n) ==
  IF n = 0 THEN {<<>>}
  ELSE LET S == NumberStreams(n - 1) IN S \cup {s \o v : s \in S, v \in NumberVarintSet}

InitV1 ==
  /\ BsonIdle
  /\ pc = "parsed"
  /\ err = "none"
  /\ referenceDocument \in References
  /\ \E c \in Counts : buffer = U32(c[1]) \o U32(c[2])
  /\ data \in NumberStreams(MaxVarints)
  /\ pos = 0
  /\ ref = <<>>
  /\ numMetrics = 0
  /\ numSamples = 0
  /\ metrics = <<>>
  /\ deltas = <<>>
  /\ restored = <<>>
  /\ emitted = <<>>
  /\ docs = <<>>

\* stripNonNumericFields(referenceDocument) (line 39)
V1Strip ==
  /\ UNCHANGED bsonVars
  /\ pc = "parsed"
  /\ LET r == stripNonNumericFields(referenceDocument)
     IN  /\ referenceDocument' = r.doc
         /\ IF r.err # "none" THEN Throw(r.err) ELSE pc' = "stripped" /\ err' = err
  /\ UNCHANGED <<buffer, pos, ref, numMetrics, numSamples, metrics, deltas,
                 restored, emitted, data, docs>>

\* metricsCount, sampleCount and the guard on their product (lines 41-46)
V1ReadCounts ==
  /\ UNCHANGED bsonVars
  /\ pc = "stripped"
  /\ LET m == readUint32LE(buffer, 0)
         n == readUint32LE(buffer, 4)
     IN  IF m.err # "none" \/ n.err # "none"
         THEN Throw("OutOfRange") /\ UNCHANGED <<numMetrics, numSamples>>
         ELSE /\ numMetrics' = m.val
              /\ numSamples' = n.val
              /\ IF m.val * n.val > MaxProduct
                 THEN Throw("Count of metrics and samples have exceeded the allowable range")
                 ELSE pc' = "counts" /\ err' = err
  /\ UNCHANGED <<referenceDocument, buffer, pos, ref, metrics, deltas, restored,
                 emitted, data, docs>>

\* The bases and the check of their number (lines 48-54)
V1ExtractMetrics ==
  /\ UNCHANGED bsonVars
  /\ pc = "counts"
  /\ LET r == extractMetricsFromDocument(referenceDocument, <<>>)
     IN  /\ metrics' = r.metrics
         /\ IF r.err # "none" THEN Throw(r.err)
            ELSE IF Len(r.metrics) # numMetrics
            THEN Throw("Metrics in the reference document and metrics count do not match")
            ELSE pc' = "extracted" /\ err' = err
  /\ UNCHANGED <<referenceDocument, buffer, pos, ref, numMetrics, numSamples, deltas,
                 restored, emitted, data, docs>>

\* reader = utils.createBufferReader(data) (line 59).  No declaration of
\* data is in scope: the identifier resolves in the global environment, and
\* reading it throws a ReferenceError when nothing is bound to it there.
V1CreateReader ==
  /\ UNCHANGED bsonVars
  /\ pc = "extracted"
  /\ \E bound \in BOOLEAN :
       IF bound
       THEN pc' = "reader" /\ err' = err
       ELSE Throw("ReferenceError")
  /\ pos' = 0
  /\ UNCHANGED <<referenceDocument, buffer, ref, numMetrics, numSamples, metrics,
                 deltas, restored, emitted, data, docs>>

\* The loop that decompresses the deltas (lines 62-76)
V1DecompressDeltas ==
  /\ UNCHANGED bsonVars
  /\ pc = "reader"
  /\ LET r == decompressDeltas(data, pos, 0, numMetrics * numSamples, Num(0), <<>>)
     IN  IF r.err # "none"
         THEN Throw(r.err) /\ UNCHANGED <<deltas, pos>>
         ELSE deltas' = r.deltas /\ pos' = r.pos /\ pc' = "decoded" /\ err' = err
  /\ UNCHANGED <<referenceDocument, buffer, ref, numMetrics, numSamples, metrics,
                 restored, emitted, data, docs>>

\* docs.push(currentDocument), the baselines and the cumulative values
\* (lines 78-93)
V1Restore ==
  /\ UNCHANGED bsonVars
  /\ pc = "decoded"
  /\ docs' = Append(docs, RootObject)
  /\ deltas' = restoreCumulative(addBaseline(deltas, metrics, 0, numMetrics, numSamples),
                                 0, 1, numMetrics, numSamples)
  /\ pc' = "restored"
  /\ UNCHANGED <<err, referenceDocument, buffer, pos, ref, numMetrics, numSamples,
                 metrics, restored, emitted, data>>

\* One pass of the loop that constructs a document per sample (lines 96-102);
\* the loop index is the number of documents pushed in the loop.
V1BuildSample ==
  /\ UNCHANGED bsonVars
  /\ pc = "restored"
  /\ Len(docs) - 1 < numSamples
  /\ LET i == Len(docs) - 1
         m == sampleMetrics(metrics, deltas, numMetrics, numSamples, i)
         r == updateFromArray(referenceDocument, referenceDocument, m, 0)
     IN  /\ metrics' = m
         /\ referenceDocument' = r.doc
         /\ IF r.err # "none"
            THEN Throw(r.err) /\ UNCHANGED docs
            ELSE docs' = Append(docs, RootObject) /\ UNCHANGED <<pc, err>>
  /\ UNCHANGED <<buffer, pos, ref, numMetrics, numSamples, deltas, restored,
                 emitted, data>>

\* return docs (line 104)
V1Return ==
  /\ UNCHANGED bsonVars
  /\ pc = "restored"
  /\ Len(docs) - 1 >= numSamples
  /\ pc' = "done"
  /\ UNCHANGED <<err, referenceDocument, buffer, pos, ref, numMetrics, numSamples,
                 metrics, deltas, restored, emitted, data, docs>>

NextV1 ==
  \/ V1Strip
  \/ V1ReadCounts
  \/ V1ExtractMetrics
  \/ V1CreateReader
  \/ V1DecompressDeltas
  \/ V1Restore
  \/ V1BuildSample
  \/ V1Return

SpecV1 == InitV1 /\ [][NextV1]_vars

-----------------------------------------------------------------------------
(* parseBSON (src/unnamed/part_000) and the readers of utils.js it calls.   *)

\* The element type codes (constants.js).
BSON_NUMBER == 1
BSON_STRING == 2
BSON_DOCUMENT == 3
BSON_ARRAY == 4
BSON_BINARY == 5
BSON_UNDEFINED == 6
BSON_OBJECTID == 7
BSON_BOOLEAN == 8
BSON_DATE == 9
BSON_NULL == 10
BSON_REGEXP == 11
BSON_DBPOINTER == 12
BSON_CODE == 13
BSON_SYMBOL == 14
BSON_CODE_W_SCOPE == 15
BSON_INT32 == 16
BSON_TIMESTAMP == 17
BSON_LONG == 18
BSON_DECIMAL128 == 19

Min(x, y) == IF x < y THEN x ELSE y

Max(x, y) == IF x > y THEN x ELSE y

\* buffer.subarray(from, to): the bytes from..to-1, both ends clamped.
subarray(buf, from, to) ==
  LET lo == Min(Max(from, 0), Len(buf))
      hi == Min(Max(to, 0), Len(buf))
  IN  IF lo < hi THEN SubSeq(buf, lo + 1, hi) ELSE <<>>

\* The index of the first 0x00 at or after i, the length of the buffer when
\* there is none (the while loop of indexAfterCString).
RECURSIVE cStringEnd(_, _)
cStringEnd(buf, i) ==
  IF i < Len(buf) /\ buf[i + 1] # 0 THEN cStringEnd(buf, i + 1) ELSE i

\* A key search that gives the position of the type byte back.
indexOfTypeByte(buf, offset) == offset - 1

indexAfterCString(buf, offset) == cStringEnd(buf, offset) + 1

\* toString of bytes: the characters of the bytes of the inputs, and a
\* numbered escape for every other byte.
CharTable ==
  (97 :> "a" @@ 98 :> "b" @@ 99 :> "c" @@ 120 :> "x" @@ 48 :> "0" @@ 49 :> "1")

CharOf(b) == IF b \in DOMAIN CharTable THEN CharTable[b] ELSE "\\" \o ToString(b)

\* The lead byte of a two-byte UTF-8 sequence, and its code point.
TwoByteLead(bytes) == Len(bytes) >= 2 /\ bytes[1] \in 192..223 /\ bytes[2] \in 128..191

CodePoint(bytes) == (bytes[1] - 192) * 64 + (bytes[2] - 128)

\* The text of bytes decoded as UTF-8, and the length of that text: a
\* two-byte sequence is one character.
RECURSIVE toString(_)
toString(bytes) ==
  IF bytes = <<>> THEN ""
  ELSE IF TwoByteLead(bytes)
  THEN "\\u" \o ToString(CodePoint(bytes)) \o toString(Tail(Tail(bytes)))
  ELSE CharOf(Head(bytes)) \o toString(Tail(bytes))

RECURSIVE textLength(_)
textLength(bytes) ==
  IF bytes = <<>> THEN 0
  ELSE IF TwoByteLead(bytes) THEN 1 + textLength(Tail(Tail(bytes)))
  ELSE 1 + textLength(Tail(bytes))

\* toHex of bytes, two digits a byte.
HexDigit == <<"0", "1", "2", "3", "4", "5", "6", "7", "8", "9", "a", "b", "c", "d", "e", "f">>

RECURSIVE toHex(_)
toHex(bytes) ==
  IF bytes = <<>> THEN ""
  ELSE HexDigit[(Head(bytes) \div 16) + 1] \o HexDigit[(Head(bytes) % 16) + 1]
       \o toHex(Tail(bytes))

\* validateBuffer(buffer, size, index): the declared size is at least 5 and
\* within the buffer, and the byte before the end offset is 0x00.
validateBuffer(buf, sz, offset) ==
  IF sz < 5 \/ offset + sz > Len(buf) THEN "InvalidSize"
  ELSE IF buf[offset + sz] # 0 THEN "InvalidTerminator"
  ELSE "none"

\* The doubles of the inputs by their bytes: 7 and 1.5; OtherDouble stands
\* for every other one.
DoubleTable ==
  (<<0, 0, 0, 0, 0, 0, 28, 64>> :> Num(7) @@ <<0, 0, 0, 0, 0, 0, 248, 63>> :> Frac(1, ".5"))

OtherDouble == Frac(0, "?")

readDoubleLE(buf, p) ==
  IF p + 8 > Len(buf) THEN [err |-> "OutOfRange", val |-> Undefined]
  ELSE LET bytes == SubSeq(buf, p + 1, p + 8)
       IN  [err |-> "none",
            val |-> IF bytes \in DOMAIN DoubleTable THEN DoubleTable[bytes] ELSE OtherDouble]

\* readString: the length, then length - 1 bytes as text; length is
\* value.length of the text, which is what the callers add to the position.
readString(buf, p) ==
  LET n == readUint32LE(buf, p)
  IN  IF n.err # "none" THEN [err |-> n.err, val |-> Undefined, length |-> 0]
      ELSE LET bytes == subarray(buf, p + 4, p + 4 + n.val - 1)
           IN  [err |-> "none", val |-> Str(toString(bytes)), length |-> textLength(bytes)]

readObjectId(buf, p) == Str("ObjectId(" \o toHex(subarray(buf, p, p + 12)) \o ")")

\* this[i] of a Uint8Array: the byte, -1 for undefined.
ByteAt(buf, i) == IF i >= 0 /\ i < Len(buf) THEN buf[i + 1] ELSE -1

\* n * 2 ** 24 for a byte n, as a number.
Times2p24(n) == [Big(0, n \div 16, (n % 16) * 2^24) EXCEPT !.t = "number"]

\* readUInt32LE with the bytes taken in the opposite order.
readUInt32BE(buf, offset) ==
  LET first == ByteAt(buf, offset)
      last == ByteAt(buf, offset + 3)
  IN  IF first = -1 \/ last = -1 THEN [err |-> "OutOfRange", val |-> Undefined]
      ELSE [err |-> "none",
            val |-> NumAdd(Num(last + ByteAt(buf, offset + 2) * 2^8
                               + ByteAt(buf, offset + 1) * 2^16),
                           Times2p24(first))]

\* readUInt32LE of the Uint8Array prototype: first + this[++offset] * 2 ** 8
\* + this[++offset] * 2 ** 16 + last * 2 ** 24.
readUInt32LE(buf, offset) ==
  LET first == ByteAt(buf, offset)
      last == ByteAt(buf, offset + 3)
  IN  IF first = -1 \/ last = -1 THEN [err |-> "OutOfRange", val |-> Undefined]
      ELSE [err |-> "none",
            val |-> NumAdd(Num(first + ByteAt(buf, offset + 1) * 2^8
                               + ByteAt(buf, offset + 2) * 2^16),
                           Times2p24(last))]

\* last << 24: the product as a signed 32-bit integer.
ShiftLeft24(last) == (IF last >= 128 THEN last - 256 ELSE last) * 2^24

\* BigInt(val) << 32n for a signed 32-bit val.
ShiftLeft32(val) == Big(val \div 2^24, (val % 2^24) * 16, 0)

readInt32LE(buf, p) ==
  IF p + 4 > Len(buf) THEN [err |-> "OutOfRange", val |-> Undefined]
  ELSE [err |-> "none",
        val |-> Num(buf[p + 1] + buf[p + 2] * 2^8 + buf[p + 3] * 2^16
                    + (IF buf[p + 4] >= 128 THEN buf[p + 4] - 256 ELSE buf[p + 4]) * 2^24)]

\* readBigInt64LE: val is the signed 32-bit integer of the bytes 4..7, the
\* result (BigInt(val) << 32n) + BigInt(the unsigned integer of the bytes 0..3).
readBigInt64LE(buf, p) ==
  IF p + 8 > Len(buf) THEN [err |-> "OutOfRange", val |-> Undefined]
  ELSE LET val == buf[p + 5] + buf[p + 6] * 2^8 + buf[p + 7] * 2^16 + ShiftLeft24(buf[p + 8])
           low == readUInt32LE(buf, p).val
       IN  [err |-> "none",
            val |-> BigAdd(ShiftLeft32(val), [low EXCEPT !.t = "bigint"])]

\* value.toString() of a BigInt: the decimal numeral when the value fits 28
\* bits, its limbs otherwise.
BigText(x) ==
  IF x.a = 0 /\ x.b = 0 THEN ToString(x.c)
  ELSE ToString(x.a) \o ":" \o ToString(x.b) \o ":" \o ToString(x.c)

\* readTimestamp: the ordinal in the low and the seconds in the high four
\* bytes, as the text Timestamp(seconds, ordinal).
readTimestamp(buf, p) ==
  LET i == readUint32LE(buf, p)
      t == readUint32LE(buf, p + 4)
  IN  IF i.err # "none" \/ t.err # "none" THEN [err |-> "OutOfRange", val |-> Undefined]
      ELSE [err |-> "none", val |-> Str(TimestampText(t.val, i.val))]

\* Number(b.toString(16)) kept in a Uint8Array: the hexadecimal text of the
\* byte read as a decimal numeral, 0 (of NaN) when it has a letter.
hexAsUint8(b) ==
  IF b < 16 THEN (IF b < 10 THEN b ELSE 0)
  ELSE IF (b \div 16) < 10 /\ (b % 16) < 10 THEN (b \div 16) * 10 + (b % 16)
  ELSE 0

\* bytes.map((b) => b.toString(16)).join('') of a Uint8Array: map gives a
\* Uint8Array again, join the decimal numerals of its elements.
RECURSIVE mapHexJoin(_)
mapHexJoin(bytes) ==
  IF bytes = <<>> THEN ""
  ELSE ToString(hexAsUint8(Head(bytes))) \o mapHexJoin(Tail(bytes))

\* The container at a path of the tree, and the tree after
\* addValue(container at path, key, value): an array pushes the value, an
\* object sets its key.
RECURSIVE ValAt(_, _)
ValAt(v, path) ==
  IF path = <<>> THEN v
  ELSE LET i == CHOOSE i \in 1..Len(v.d) : v.d[i].key = Head(path)
       IN  ValAt(v.d[i].value, Tail(path))

RECURSIVE AddAt(_, _, _, _)
AddAt(v, path, k, val) ==
  IF path = <<>>
  THEN IF v.t = "array"
       THEN [v EXCEPT !.d = Append(v.d, Entry(ToString(Len(v.d)), val))]
       ELSE [v EXCEPT !.d = ObjSet(v.d, k.s, val)]
  ELSE [v EXCEPT !.d = [i \in 1..Len(v.d) |->
          IF v.d[i].key = Head(path)
          THEN Entry(v.d[i].key, AddAt(v.d[i].value, Tail(path), k, val))
          ELSE v.d[i]]]

addValue(tree, path, k, val) == IF k = Undefined THEN tree ELSE AddAt(tree, path, k, val)

\* The path of the container that addValue has just added at path.
AddedPath(tree, path, k) ==
  LET c == ValAt(tree, path)
  IN  Append(path, IF c.t = "array" THEN ToString(Len(c.d)) ELSE k.s)

\* The switch on elementType (lines 97-199) for an element whose key ends
\* before position i, in the container at cur with the stack stk: the error
\* thrown and the locals after it.
switchElement(et, i, k, cur, stk, isArr) ==
  LET base == [err |-> "none", index |-> i, value |-> value, object |-> object,
               currentObj |-> cur, st |-> stk, isArray |-> isArr, size |-> size,
               returned |-> returned]
      added(r, v, width) ==
        [r EXCEPT !.value = v, !.object = addValue(object, cur, k, v), !.index = i + width]
      fail(e) == [base EXCEPT !.err = e]
  IN  CASE et = BSON_NUMBER ->
             LET r == readDoubleLE(buffer, i)
             IN  IF r.err # "none" THEN fail(r.err) ELSE added(base, r.val, 8)
        [] et = BSON_STRING ->
             LET r == readString(buffer, i)
             IN  IF r.err # "none" THEN fail(r.err) ELSE added(base, r.val, 4 + r.length)
        [] et \in {BSON_DOCUMENT, BSON_ARRAY} ->
             LET n == readUint32LE(buffer, i)
                 v == validateBuffer(buffer, n.val, i)
                 o == IF et = BSON_ARRAY THEN Arr(<<>>) ELSE Obj(<<>>)
             IN  IF n.err # "none" THEN fail(n.err)
                 ELSE IF v # "none" THEN [base EXCEPT !.err = v, !.size = n.val]
                 ELSE [base EXCEPT
                         !.size = n.val,
                         !.st = Append(stk, [currentObj |-> cur, size |-> n.val + i]),
                         !.object = addValue(object, cur, k, o),
                         !.currentObj = AddedPath(object, cur, k),
                         !.isArray = IF et = BSON_ARRAY THEN TRUE
                                     ELSE IF n.val > 5 THEN FALSE ELSE isArr,
                         !.index = i + 4]
        [] et = BSON_BINARY ->
             LET n == readUint32LE(buffer, i)
             IN  IF n.err # "none" THEN fail(n.err)
                 ELSE IF n.val + i > totalSize /\ options
                 THEN [base EXCEPT
                         !.size = n.val,
                         !.returned = [kind |-> "carrier",
                                       bytes |-> subarray(buffer, i + 8 + 1, Len(buffer))]]
                 ELSE added([base EXCEPT !.size = n.val],
                            Str(mapHexJoin(subarray(buffer, i, i + n.val))), 4 + n.val)
        [] et = BSON_OBJECTID -> added(base, readObjectId(buffer, i), 12)
        [] et = BSON_BOOLEAN ->
             added(base, Bool(~(i < Len(buffer) /\ buffer[i + 1] = 0)), 1)
        [] et = BSON_DATE ->
             LET r == readBigInt64LE(subarray(buffer, i, i + 8), 0)
             IN  IF r.err # "none" THEN fail(r.err)
                 ELSE added(base, [r.val EXCEPT !.t = "date"], 8)
        [] et = BSON_NULL -> added(base, Null, 0)
        [] et = BSON_INT32 ->
             LET r == readInt32LE(buffer, i)
             IN  IF r.err # "none" THEN fail(r.err) ELSE added(base, r.val, 4)
        [] et = BSON_TIMESTAMP ->
             LET r == readTimestamp(buffer, i)
             IN  IF r.err # "none" THEN fail(r.err) ELSE added(base, r.val, 8)
        [] et = BSON_LONG ->
             LET r == readBigInt64LE(buffer, i)
             IN  IF r.err # "none" THEN fail(r.err)
                 ELSE [added(base, Str(BigText(r.val)), 8) EXCEPT !.value = r.val]
        [] OTHER -> base

DecoderIdle ==
  /\ referenceDocument = <<>>
  /\ pos = 0
  /\ ref = <<>>
  /\ numMetrics = 0
  /\ numSamples = 0
  /\ metrics = <<>>
  /\ deltas = <<>>
  /\ restored = <<>>
  /\ emitted = <<>>
  /\ data = <<>>
  /\ docs = <<>>

\* size = readUint32LE(buffer), index = 4, validateBuffer (lines 57-60)
BsonStart ==
  /\ pc = "start"
  /\ LET n == readUint32LE(buffer, 0)
         v == validateBuffer(buffer, n.val, 0)
     IN  IF n.err # "none"
         THEN Throw(n.err) /\ UNCHANGED <<size, index, totalSize>>
         ELSE /\ size' = n.val
              /\ index' = 4
              /\ totalSize' = n.val
              /\ IF v # "none" THEN Throw(v) ELSE pc' = "loop" /\ err' = err
  /\ UNCHANGED <<options, object, currentObj, key, value, st, isArray, elementType, returned>>
  /\ UNCHANGED <<buffer, decoderVars, ftdcVars>>

\* One pass of the while loop (lines 71-200): the stack logic, the type
\* byte, the key and the switch.
BsonElement ==
  /\ pc = "loop"
  /\ index < Len(buffer)
  /\ LET pop == Len(st) > 0 /\ st[Len(st)].size = index
         cur == IF pop THEN st[Len(st)].currentObj ELSE currentObj
         stk == IF pop THEN SubSeq(st, 1, Len(st) - 1) ELSE st
         isArr == IF pop THEN ValAt(object, cur).t = "array" ELSE isArray
         et == buffer[index + 1]
         k == IF ~isArr
              THEN Str(toString(subarray(buffer, index + 1,
                                         indexAfterCString(buffer, index + 1) - 1)))
              ELSE key
         r == switchElement(et, indexAfterCString(buffer, index + 1), k, cur, stk, isArr)
     IN  /\ elementType' = et
         /\ IF et = 0
            THEN /\ index' = index + 1
                 /\ currentObj' = cur
                 /\ st' = stk
                 /\ isArray' = isArr
                 /\ UNCHANGED <<pc, err, key, value, object, size, returned>>
            ELSE /\ key' = k
                 /\ index' = r.index
                 /\ value' = r.value
                 /\ object' = r.object
                 /\ currentObj' = r.currentObj
                 /\ st' = r.st
                 /\ isArray' = r.isArray
                 /\ size' = r.size
                 /\ returned' = r.returned
                 /\ IF r.err # "none" THEN Throw(r.err)
                    ELSE IF r.returned.kind # "nothing" THEN pc' = "returned" /\ err' = err
                    ELSE UNCHANGED <<pc, err>>
  /\ UNCHANGED <<options, totalSize>>
  /\ UNCHANGED <<buffer, decoderVars, ftdcVars>>

\* The loop ends and parseBSON returns the object (line 201).
BsonReturn ==
  /\ pc = "loop"
  /\ index >= Len(buffer)
  /\ pc' = "returned"
  /\ returned' = [kind |-> "object", bytes |-> <<>>]
  /\ UNCHANGED <<err, options, index, size, totalSize, object, currentObj, key, value,
                 st, isArray, elementType>>
  /\ UNCHANGED <<buffer, decoderVars, ftdcVars>>

NextBSON ==
  \/ BsonStart
  \/ BsonElement
  \/ BsonReturn

-----------------------------------------------------------------------------
(* The buffers parseBSON is given.                                          *)

MaxElements == 2

\* type, key, 0x00 and payload of an element; size, body and 0x00 of a
\* document.
Element(type, k, payload) == <<type>> \o k \o <<0>> \o payload

Document(body) == U32(Len(body) + 5) \o body \o <<0>>

KeyA == <<97>>
KeyB == <<98>>
KeyC == <<99>>
Key0 == <<48>>
Key1 == <<49>>

Int32Seven == U32(7)

\* A Binary of two bytes, 07 00, of subtype 0.
BinaryPayload == U32(2) \o <<0>> \o <<7, 0>>

\* The string "x", the payload of a String, a Symbol or a JavaScript code.
StringX == U32(2) \o <<120, 0>>

\* The payloads of the elements of the inputs, each with its type.  No byte
\* of an input is above 0x7F, so that every four bytes are a number below
\* 2^31 wherever they are read.
Payloads ==
  {<<BSON_NUMBER, <<0, 0, 0, 0, 0, 0, 28, 64>>>>,
   <<BSON_STRING, StringX>>,
   <<BSON_DOCUMENT, Document(<<>>)>>,
   <<BSON_DOCUMENT, Document(Element(BSON_INT32, KeyB, Int32Seven))>>,
   <<BSON_DOCUMENT, Document(Element(BSON_DOCUMENT, KeyB, Document(<<>>)))>>,
   <<BSON_DOCUMENT, Document(Element(BSON_DOCUMENT, KeyB,
                               Document(Element(BSON_INT32, KeyC, Int32Seven))))>>,
   <<BSON_ARRAY, Document(<<>>)>>,
   <<BSON_ARRAY, Document(Element(BSON_INT32, Key0, Int32Seven))>>,
   <<BSON_ARRAY, Document(Element(BSON_DOCUMENT, Key0, Document(<<>>))
                          \o Element(BSON_INT32, Key1, Int32Seven))>>,
   <<BSON_BINARY, BinaryPayload>>,
   <<BSON_UNDEFINED, <<>>>>,
   <<BSON_OBJECTID, <<0, 0, 0, 0, 0, 0, 0, 0, 0, 0, 0, 1>>>>,
   <<BSON_BOOLEAN, <<1>>>>,
   <<BSON_DATE, <<100, 0, 0, 0, 0, 0, 0, 0>>>>,
   <<BSON_NULL, <<>>>>,
   <<BSON_REGEXP, <<97, 0, 0>>>>,
   <<BSON_DBPOINTER, StringX \o <<0, 0, 0, 0, 0, 0, 0, 0, 0, 0, 0, 1>>>>,
   <<BSON_CODE, StringX>>,
   <<BSON_SYMBOL, StringX>>,
   <<BSON_CODE_W_SCOPE, U32(15) \o StringX \o Document(<<>>)>>,
   <<BSON_INT32, Int32Seven>>,
   <<BSON_TIMESTAMP, U32(3) \o U32(100)>>,
   <<BSON_LONG, <<42, 0, 0, 0, 0, 0, 0, 0>>>>,
   <<BSON_DECIMAL128, <<1, 0, 0, 0, 0, 0, 0, 0, 0, 0, 0, 0, 0, 0, 48, 64>>>>}

Keys == {KeyA, Key0, Key1}

\* The bodies of up to n elements with different keys.
RECURSIVE Bodies(_)
Bodies(n) ==
  IF n = 0 THEN {[keys |-> <<>>, bytes |-> <<>>]}
  ELSE LET B == Bodies(n - 1)
           Last == {c \in B : Len(c.keys) = n - 1}
       IN  B \cup {[keys |-> Append(t[1].keys, t[2]),
                    bytes |-> t[1].bytes \o Element(t[3][1], t[2], t[3][2])] :
                   t \in {u \in Last \X Keys \X Payloads :
                            \A i \in 1..Len(u[1].keys) : u[1].keys[i] # u[2]}}

WellFormed == {Document(b.bytes) : b \in Bodies(MaxElements)}

\* A Boolean with no payload byte: 07 00 00 00 08 "a" 00.
BooleanCutShort == U32(7) \o <<BSON_BOOLEAN>> \o KeyA \o <<0>>

\* An empty document followed by a Null whose key has no 0x00.
KeyUnterminated == Document(<<>>) \o <<BSON_NULL>> \o KeyA

\* {a: {b: 7}, c: 7} with 9 as the size of the nested document, three bytes
\* short of its end; the byte before the declared end offset is 0x00.
NestedDeclaredShort ==
  Document(Element(BSON_DOCUMENT, KeyA,
                   U32(9) \o Element(BSON_INT32, KeyB, Int32Seven) \o <<0>>)
           \o Element(BSON_INT32, KeyC, Int32Seven))

\* A document of 12 bytes whose Binary declares 20 bytes, more than the
\* document has: 0C 00 00 00 05 "a" 00 14 00 00 00 00, and six bytes after it.
BinaryPastSize ==
  U32(12) \o <<BSON_BINARY>> \o KeyA \o <<0>> \o U32(20) \o <<0>> \o <<0, 0, 0, 0, 7, 7>>

Malformed == {BooleanCutShort, KeyUnterminated, NestedDeclaredShort, BinaryPastSize}

\* A String of one character of two bytes, U+00E9, and an Int32 after it.
StringAccent ==
  Document(Element(BSON_STRING, KeyA, U32(3) \o <<195, 169, 0>>)
           \o Element(BSON_INT32, KeyB, Int32Seven))

BsonInputs == WellFormed \cup Malformed \cup {StringAccent}

InitBSON ==
  /\ DecoderIdle
  /\ FtdcIdle
  /\ pc = "start"
  /\ err = "none"
  /\ buffer \in BsonInputs
  /\ options \in BOOLEAN
  /\ index = 0
  /\ size = 0
  /\ totalSize = 0
  /\ object = Obj(<<>>)
  /\ currentObj = <<>>
  /\ key = Undefined
  /\ value = Undefined
  /\ st = <<>>
  /\ isArray = FALSE
  /\ elementType = 0
  /\ returned = [kind |-> "nothing", bytes |-> <<>>]

SpecBSON == InitBSON /\ [][NextBSON]_vars

\* The buffers of the runs to the end: every element type alone and with an
\* Int32 after it, and the buffers that are not well formed.
LoopInputs ==
  {Document(Element(p[1], KeyA, p[2])) : p \in Payloads}
  \cup {Document(Element(p[1], KeyA, p[2]) \o Element(BSON_INT32, Key0, Int32Seven)) :
          p \in Payloads}
  \cup Malformed \cup {StringAccent}

InitLoop ==
  /\ DecoderIdle
  /\ FtdcIdle
  /\ pc = "start"
  /\ err = "none"
  /\ buffer \in LoopInputs
  /\ options \in BOOLEAN
  /\ index = 0
  /\ size = 0
  /\ totalSize = 0
  /\ object = Obj(<<>>)
  /\ currentObj = <<>>
  /\ key = Undefined
  /\ value = Undefined
  /\ st = <<>>
  /\ isArray = FALSE
  /\ elementType = 0
  /\ returned = [kind |-> "nothing", bytes |-> <<>>]

\* parseBSON runs to its end once called: nothing else is scheduled.
SpecBSONFair == InitLoop /\ [][NextBSON]_vars /\ WF_vars(NextBSON)

-----------------------------------------------------------------------------
(* parseBSONFile, the parser of src/unnamed/part_002.  Its stack holds      *)
(* frames {current, length}; the frame of an empty document or array has    *)
(* current = null.  The fetched bytes are the variable buffer.               *)

\* A frame of the stack of parseBSONFile.
Frame(cur, isNull, length) == [current |-> cur, null |-> isNull, length |-> length]

\* append(obj, key, value) (lines 40-50) on the container at path.
append(tree, path, k, val) == AddAt(tree, path, k, val)

\* The check of the end of the current buffer (lines 94-108) once index has
\* passed the type byte: the error thrown, the stack and current after it.
fileStackCheck(stk, cur, i) ==
  IF Len(stk) = 0
  THEN [err |-> "TypeError: Cannot read properties of undefined (length)",
        st |-> stk, currentObj |-> cur]
  ELSE IF stk[Len(stk)].length # i
  THEN [err |-> "none", st |-> stk, currentObj |-> cur]
  ELSE IF stk[Len(stk)].null
  THEN [err |-> "none", st |-> SubSeq(stk, 1, Len(stk) - 1), currentObj |-> cur]
  ELSE IF Len(stk) = 1
  THEN [err |-> "none", st |-> <<>>, currentObj |-> cur]
  ELSE [err |-> "none", st |-> SubSeq(stk, 1, Len(stk) - 2),
        currentObj |-> stk[Len(stk) - 1].current]

\* The switch on elementType (lines 123-231) for an element whose key ends
\* before position i, in the container at cur with the stack stk.
fileSwitch(et, i, k, cur, stk) ==
  LET base == [err |-> "none", index |-> i, value |-> value, object |-> object,
               currentObj |-> cur, st |-> stk, size |-> size]
      added(r, v, width) ==
        [r EXCEPT !.value = v, !.object = append(object, cur, k, v), !.index = i + width]
      fail(e) == [base EXCEPT !.err = e]
  IN  CASE et = BSON_NUMBER ->
             LET r == readDoubleLE(buffer, i)
             IN  IF r.err # "none" THEN fail(r.err) ELSE added(base, r.val, 8)
        [] et = BSON_STRING ->
             LET r == readString(buffer, i)
             IN  IF r.err # "none" THEN fail(r.err) ELSE added(base, r.val, 4 + r.length)
        [] et \in {BSON_DOCUMENT, BSON_ARRAY} ->
             LET n == readUint32LE(buffer, i)
                 v == validateBuffer(buffer, n.val, i)
                 o == IF et = BSON_ARRAY THEN Arr(<<>>) ELSE Obj(<<>>)
             IN  IF n.err # "none" THEN fail(n.err)
                 ELSE IF v # "none" THEN [base EXCEPT !.err = v, !.size = n.val]
                 ELSE IF n.val = 5
                 THEN [base EXCEPT
                         !.size = n.val,
                         !.object = append(object, cur, k, o),
                         !.st = Append(stk, Frame(<<>>, TRUE, n.val + i + 1)),
                         !.index = i + 4]
                 ELSE [base EXCEPT
                         !.size = n.val,
                         !.object = append(object, cur, k, o),
                         !.currentObj = AddedPath(object, cur, k),
                         !.st = Append(stk, Frame(AddedPath(object, cur, k), FALSE,
                                                  n.val + i + 1)),
                         !.index = i + 4]
        [] et = BSON_BINARY ->
             LET n == readUint32LE(buffer, i)
             IN  IF n.err # "none" THEN fail(n.err)
                 ELSE [base EXCEPT
                         !.size = n.val,
                         !.object = append(object, cur, k, Str("BinData(...)")),
                         !.index = i + 4]
        [] et = BSON_OBJECTID -> added(base, readObjectId(buffer, i), 12)
        [] et = BSON_BOOLEAN ->
             added(base, Bool(~(i < Len(buffer) /\ buffer[i + 1] = 0)), 1)
        [] et = BSON_DATE ->
             LET r == readBigInt64LE(subarray(buffer, i, i + 8), 0)
             IN  IF r.err # "none" THEN fail(r.err)
                 ELSE added(base, [r.val EXCEPT !.t = "date"], 8)
        [] et = BSON_NULL -> added(base, Null, 0)
        [] et = BSON_INT32 ->
             LET r == readInt32LE(buffer, i)
             IN  IF r.err # "none" THEN fail(r.err) ELSE added(base, r.val, 4)
        [] et = BSON_TIMESTAMP ->
             LET r == readBigInt64LE(buffer, i)
             IN  IF r.err # "none" THEN fail(r.err)
                 ELSE added(base, Str(BigText(r.val)), 8)
        [] et = BSON_LONG ->
             LET r == readBigInt64LE(buffer, i)
             IN  IF r.err # "none" THEN fail(r.err) ELSE added(base, r.val, 8)
        [] OTHER -> base

\* size = readUInt32LE(buffer), validateBuffer, index = 4, the frame of the
\* result pushed (lines 73-88)
FileStart ==
  /\ pc = "start"
  /\ LET n == readUint32LE(buffer, 0)
         v == validateBuffer(buffer, n.val, 0)
     IN  IF n.err # "none"
         THEN Throw(n.err) /\ UNCHANGED <<size, index, st>>
         ELSE /\ size' = n.val
              /\ IF v # "none"
                 THEN Throw(v) /\ UNCHANGED <<index, st>>
                 ELSE /\ index' = 4
                      /\ st' = <<Frame(<<>>, FALSE, n.val)>>
                      /\ pc' = "loop"
                      /\ err' = err
  /\ UNCHANGED <<options, totalSize, object, currentObj, key, value, isArray,
                 elementType, returned>>
  /\ UNCHANGED <<buffer, decoderVars, ftdcVars>>

\* One pass of the while loop (lines 90-232): the type byte, the check of
\* the stack, the key and the switch.
FileElement ==
  /\ pc = "loop"
  /\ index < Len(buffer)
  /\ LET et == buffer[index + 1]
         c == fileStackCheck(st, currentObj, index + 1)
         inArray == ValAt(object, c.currentObj).t = "array"
         k == IF ~inArray
              THEN Str(toString(subarray(buffer, index + 1,
                                         indexAfterCString(buffer, index + 1) - 1)))
              ELSE key
         r == fileSwitch(et, indexAfterCString(buffer, index + 1), k, c.currentObj, c.st)
     IN  /\ elementType' = et
         /\ IF c.err # "none"
            THEN /\ index' = index + 1
                 /\ Throw(c.err)
                 /\ UNCHANGED <<currentObj, st, key, value, object, size>>
            ELSE IF et = 0
            THEN /\ index' = index + 1
                 /\ currentObj' = c.currentObj
                 /\ st' = c.st
                 /\ UNCHANGED <<pc, err, key, value, object, size>>
            ELSE /\ key' = k
                 /\ index' = r.index
                 /\ value' = r.value
                 /\ object' = r.object
                 /\ currentObj' = r.currentObj
                 /\ st' = r.st
                 /\ size' = r.size
                 /\ IF r.err # "none" THEN Throw(r.err) ELSE UNCHANGED <<pc, err>>
  /\ UNCHANGED <<options, totalSize, isArray, returned>>
  /\ UNCHANGED <<buffer, decoderVars, ftdcVars>>

\* The loop ends and parseBSONFile returns result (line 233).
FileReturn ==
  /\ pc = "loop"
  /\ index >= Len(buffer)
  /\ pc' = "returned"
  /\ returned' = [kind |-> "object", bytes |-> <<>>]
  /\ UNCHANGED <<err, options, index, size, totalSize, object, currentObj, key, value,
                 st, isArray, elementType>>
  /\ UNCHANGED <<buffer, decoderVars, ftdcVars>>

NextFile ==
  \/ FileStart
  \/ FileElement
  \/ FileReturn

SpecFile == InitBSON /\ [][NextFile]_vars

-----------------------------------------------------------------------------
(* The little-endian reads on their own: a buffer of eight bytes, one read   *)
(* at offset index, the result in value.                                    *)

\* The bytes of the inputs of the reads: both ends of the range of a byte and
\* the two values around its sign bit.
ReadBytes == {0, 127, 128, 255}

\* Buffers of eight bytes.
ReadBuffers == [1..8 -> ReadBytes]

InitReads ==
  /\ DecoderIdle
  /\ FtdcIdle
  /\ pc = "start"
  /\ err = "none"
  /\ buffer \in ReadBuffers
  /\ options = FALSE
  /\ index \in {0, 4}
  /\ size = 0
  /\ totalSize = 0
  /\ object = Obj(<<>>)
  /\ currentObj = <<>>
  /\ key = Undefined
  /\ value = Undefined
  /\ st = <<>>
  /\ isArray = FALSE
  /\ elementType = 0
  /\ returned = [kind |-> "nothing", bytes |-> <<>>]

\* value = readUInt32LE(index) on the buffer (lines 374-387)
ReadUInt32 ==
  /\ pc = "start"
  /\ LET r == readUInt32LE(buffer, index)
     IN  IF r.err # "none"
         THEN Throw(r.err) /\ UNCHANGED value
         ELSE value' = r.val /\ pc' = "u32" /\ err' = err
  /\ UNCHANGED <<options, index, size, totalSize, object, currentObj, key, st, isArray,
                 elementType, returned>>
  /\ UNCHANGED <<buffer, decoderVars, ftdcVars>>

\* value = readInt32LE(index) on the buffer (lines 389-402)
ReadInt32 ==
  /\ pc = "start"
  /\ LET r == readInt32LE(buffer, index)
     IN  IF r.err # "none"
         THEN Throw(r.err) /\ UNCHANGED value
         ELSE value' = r.val /\ pc' = "i32" /\ err' = err
  /\ UNCHANGED <<options, index, size, totalSize, object, currentObj, key, st, isArray,
                 elementType, returned>>
  /\ UNCHANGED <<buffer, decoderVars, ftdcVars>>

\* value = readBigInt64LE(index) on the buffer (lines 422-443)
ReadBigInt64 ==
  /\ pc = "start"
  /\ LET r == readBigInt64LE(buffer, index)
     IN  IF r.err # "none"
         THEN Throw(r.err) /\ UNCHANGED value
         ELSE value' = r.val /\ pc' = "i64" /\ err' = err
  /\ UNCHANGED <<options, index, size, totalSize, object, currentObj, key, st, isArray,
                 elementType, returned>>
  /\ UNCHANGED <<buffer, decoderVars, ftdcVars>>

NextReads ==
  \/ ReadUInt32
  \/ ReadInt32
  \/ ReadBigInt64

SpecReads == InitReads /\ [][NextReads]_vars

-----------------------------------------------------------------------------
(* readFTDCFile of src/parser.js, its first definition (lines 204-350).     *)
(* The fetched bytes are the variable buffer.  A stack element is            *)
(* {size, document, level}; the document of a nested element is a subarray  *)
(* of buffer, kept by its start and length, the document of the first        *)
(* element is a plain object.  The properties written to a document are      *)
(* never read; a write to a subarray under an index key writes the byte of   *)
(* buffer it stands for.                                                     *)

StackElement(sz, level, typed, start, length) ==
  [size |-> sz, level |-> level, typed |-> typed, start |-> start, length |-> length]

\* const element = {size: 0, document: {}, level: 0}
FirstElement == StackElement(0, 0, FALSE, 0, 0)

maxAllowableDepth == 3

\* A number read by readUInt32LE as an offset: itself below 2^31, and
\* 2^31 - 1, past the end of every buffer, from there on.
IntOf(v) == IF v.a = 0 /\ v.b < 8 THEN v.b * Limb + v.c ELSE 2147483647

\* The byte a typed array stores for a double given by its eight bytes: the
\* integer part modulo 256, 0 for NaN and the infinities.
DoubleBit(bytes, i) ==
  IF i < 0 \/ i > 52 THEN 0
  ELSE IF i = 52 THEN 1
  ELSE IF i >= 48 THEN ((bytes[7] % 16) \div 2^(i - 48)) % 2
  ELSE (bytes[(i \div 8) + 1] \div 2^(i % 8)) % 2

RECURSIVE DoubleLowBits(_, _, _)
DoubleLowBits(bytes, shift, j) ==
  IF j = 8 THEN 0
  ELSE DoubleBit(bytes, j + shift) * 2^j + DoubleLowBits(bytes, shift, j + 1)

Uint8OfDouble(bytes) ==
  LET e == (bytes[8] % 128) * 16 + (bytes[7] \div 16)
      low == IF e = 2047 \/ e = 0 THEN 0 ELSE DoubleLowBits(bytes, 1075 - e, 0)
  IN  IF bytes[8] >= 128 THEN (256 - low) % 256 ELSE low

\* The byte stored for a string: Number(string) modulo 256, 0 for NaN.  The
\* strings of decimal digits and the empty string are numbers, the other
\* strings of the inputs are not.
RECURSIVE DigitsValue(_, _)
DigitsValue(bytes, acc) ==
  IF bytes = <<>> THEN acc
  ELSE DigitsValue(Tail(bytes), (acc * 10 + (Head(bytes) - 48)) % 256)

Uint8OfText(bytes) ==
  IF \A k \in 1..Len(bytes) : bytes[k] >= 48 /\ bytes[k] <= 57
  THEN DigitsValue(bytes, 0)
  ELSE 0

\* The byte stored for a Date of the given count of milliseconds: the count
\* modulo 256, 0 for an invalid Date (beyond 8.64e15 either way).
Uint8OfDate(ms) ==
  LET valid == \/ ms.a = 0 /\ (ms.b < 32186508 \/ (ms.b = 32186508 /\ ms.c <= 47972352))
               \/ ms.a = -1 /\ (ms.b > 236248947 \/ (ms.b = 236248947 /\ ms.c >= 220463104))
  IN  IF valid THEN ms.c % 256 ELSE 0

\* item.document[keyName] = a value whose byte is b.
documentSet(buf, itm, keyName, b) ==
  IF itm.typed /\ KeyIndex(keyName) >= 0 /\ KeyIndex(keyName) < itm.length
  THEN [buf EXCEPT ![itm.start + KeyIndex(keyName) + 1] = b]
  ELSE buf

\* buffer.slice(from, to), and readString of src/parser.js by the bytes of
\* the string (one character a byte, the bytes of the inputs being ASCII).
slice(buf, from, to) == subarray(buf, from, to)

ftdcReadString(buf, offset) ==
  LET length == readUInt32LE(buf, offset)
  IN  IF length.err # "none" THEN [err |-> length.err, bytes |-> <<>>]
      ELSE [err |-> "none",
            bytes |-> slice(buf, offset + 4, offset + 4 + Min(IntOf(length.val), Len(buf)) - 1)]

\* The switch on elementType (lines 278-343) for the element keyName whose
\* value starts at i, written to the stack element itm.
ftdcSwitch(et, i, keyName, itm, buf, stk, flat) ==
  LET base == [err |-> "none", index |-> i, buffer |-> buf, object |-> object,
               st |-> stk, stackItem |-> FALSE]
      set(v, b, width) ==
        [base EXCEPT !.buffer = documentSet(buf, itm, keyName, b),
                     !.object = IF flat THEN [object EXCEPT !.d = ObjSet(@, keyName, v)]
                                ELSE object,
                     !.index = i + width]
      fail(e) == [base EXCEPT !.err = e]
  IN  CASE et = BSON_NUMBER ->
             LET r == readDoubleLE(buf, i)
             IN  IF r.err # "none" THEN fail(r.err)
                 ELSE set(r.val, Uint8OfDouble(SubSeq(buf, i + 1, i + 8)), 8)
        [] et = BSON_STRING ->
             LET r == ftdcReadString(buf, i)
             IN  IF r.err # "none" THEN fail(r.err)
                 ELSE set(Str(toString(r.bytes)), Uint8OfText(r.bytes), 4 + Len(r.bytes))
        [] et = BSON_DOCUMENT ->
             LET sz == readUInt32LE(buf, i)
                 length == Max(Min(IntOf(sz.val), Len(buf) - i), 0)
             IN  IF sz.err # "none" THEN fail(sz.err)
                 ELSE [set(Obj(<<>>), 0, 4) EXCEPT
                         !.st = Append(stk, StackElement(sz.val, itm.level + 1, TRUE,
                                                         Min(i, Len(buf)), length)),
                         !.stackItem = TRUE]
        [] et \in {BSON_ARRAY, BSON_BINARY, BSON_UNDEFINED, BSON_OBJECTID} ->
             set(Str("ObjectId(" \o toHex(slice(buf, i, i + 12)) \o ")"), 0, 12)
        [] et = BSON_BOOLEAN ->
             LET bool == ~(ByteAt(buf, i) = 0)
             IN  set(Bool(bool), IF bool THEN 1 ELSE 0, 1)
        [] et = BSON_DATE ->
             LET r == readBigInt64LE(subarray(buf, i, i + 8), 0)
             IN  IF r.err # "none" THEN fail(r.err)
                 ELSE set([r.val EXCEPT !.t = "date"], Uint8OfDate(r.val), 8)
        [] et \in {BSON_NULL, BSON_REGEXP, BSON_DBPOINTER, BSON_CODE, BSON_SYMBOL,
                   BSON_CODE_W_SCOPE, BSON_INT32} ->
             LET r == readInt32LE(buf, i)
             IN  IF r.err # "none" THEN fail(r.err) ELSE set(r.val, r.val.c % 256, 4)
        [] OTHER -> base

\* The checks of the size and of the terminator without the second one.
ftdcValidateSizeOnly(buf) ==
  LET sz == readUInt32LE(buf, 0)
  IN  IF sz.err # "none" THEN sz.err
      ELSE IF sz.val.a < 0 \/ (sz.val.a = 0 /\ sz.val.b = 0 /\ sz.val.c < 5)
      THEN "BSONError: Invalid BSON size"
      ELSE "none"

\* size = buffer.readUInt32LE(0); if (size < 5) throw; if (buffer[size - 1]
\* !== 0) throw (lines 218-227)
ftdcValidate(buf) ==
  LET sz == readUInt32LE(buf, 0)
  IN  IF sz.err # "none" THEN sz.err
      ELSE IF sz.val.a < 0 \/ (sz.val.a = 0 /\ sz.val.b = 0 /\ sz.val.c < 5)
      THEN "BSONError: Invalid BSON size"
      ELSE IF ByteAt(buf, IntOf(sz.val) - 1) # 0
      THEN "BSONError: Invalid BSON terminator"
      ELSE "none"

\* The size and the checks, index = 4, the first element pushed (lines
\* 216-246)
FtdcStart ==
  /\ pc = "start"
  /\ LET v == ftdcValidate(buffer)
     IN  IF v # "none"
         THEN Throw(v) /\ UNCHANGED <<size, index, st, stackItem, object>>
         ELSE /\ size' = IntOf(readUInt32LE(buffer, 0).val)
              /\ index' = 4
              /\ st' = <<FirstElement>>
              /\ stackItem' = TRUE
              /\ object' = Obj(<<>>)
              /\ pc' = "loop"
              /\ err' = err
  /\ UNCHANGED <<options, totalSize, currentObj, key, value, isArray, elementType,
                 returned, item, buffer, decoderVars>>

\* One pass of the while loop (lines 248-344)
FtdcElement ==
  /\ pc = "loop"
  /\ index < Len(buffer) \/ Len(st) > 0
  /\ LET itm == IF stackItem THEN st[Len(st)] ELSE item
         stk == IF stackItem THEN SubSeq(st, 1, Len(st) - 1) ELSE st
         et == ByteAt(buffer, index)
         keyName == toString(subarray(buffer, index + 1,
                                      indexAfterCString(buffer, index + 1) - 1))
         buf == documentSet(buffer, itm, keyName, 0)
         i == indexAfterCString(buf, index + 1)
         r == ftdcSwitch(et, i, keyName, itm, buf, stk, TRUE)
     IN  /\ item' = itm
         /\ elementType' = et
         /\ IF et = 0
            THEN /\ index' = index + 1
                 /\ st' = stk
                 /\ stackItem' = FALSE
                 /\ UNCHANGED <<pc, err, buffer, object>>
            ELSE IF itm.level >= maxAllowableDepth
            THEN /\ index' = i
                 /\ buffer' = buf
                 /\ st' = stk
                 /\ stackItem' = FALSE
                 /\ object' = object
                 /\ Throw("Error: Exceeds the limit of levels of nesting")
            ELSE /\ index' = r.index
                 /\ buffer' = r.buffer
                 /\ st' = r.st
                 /\ stackItem' = r.stackItem
                 /\ object' = r.object
                 /\ IF r.err # "none" THEN Throw(r.err) ELSE UNCHANGED <<pc, err>>
  /\ UNCHANGED <<options, size, totalSize, currentObj, key, value, isArray, returned,
                 decoderVars>>

\* The loop ends and readFTDCFile returns {isFTDCFile: true, result: object}
\* (lines 346-349)
FtdcReturn ==
  /\ pc = "loop"
  /\ ~(index < Len(buffer) \/ Len(st) > 0)
  /\ pc' = "returned"
  /\ returned' = [kind |-> "object", bytes |-> <<>>]
  /\ UNCHANGED <<err, options, index, size, totalSize, object, currentObj, key, value,
                 st, isArray, elementType, item, stackItem, buffer, decoderVars>>

NextFtdc ==
  \/ FtdcStart
  \/ FtdcElement
  \/ FtdcReturn

\* Buffers that the checks must reject: too short for a size, a size below
\* 5, a size past the end (also one of 2^31 and more), a byte other than
\* 0x00 at size - 1.
InvalidBuffers ==
  {<<>>, <<5, 0>>, <<5, 0, 0>>,
   <<0, 0, 0, 0, 0>>, <<4, 0, 0, 0, 0>>,
   <<6, 0, 0, 0, 0>>, <<9, 0, 0, 0, 10, 97, 0, 0>>,
   <<0, 0, 0, 128, 0>>, <<255, 255, 255, 255, 0>>,
   <<5, 0, 0, 0, 1>>, <<5, 0, 0, 0, 10, 0>>, <<8, 0, 0, 0, 10, 97, 0, 10, 0>>}

\* A document followed by more bytes: the 0x00 at size - 1 is not the last
\* byte.
Trailing == {Document(<<>>) \o <<BSON_NULL>> \o KeyA \o <<0>>}

FtdcInputs == WellFormed \cup Malformed \cup InvalidBuffers \cup Trailing

InitFtdc ==
  /\ DecoderIdle
  /\ FtdcIdle
  /\ pc = "start"
  /\ err = "none"
  /\ buffer \in FtdcInputs
  /\ options = FALSE
  /\ index = 0
  /\ size = 0
  /\ totalSize = 0
  /\ object = Obj(<<>>)
  /\ currentObj = <<>>
  /\ key = Undefined
  /\ value = Undefined
  /\ st = <<>>
  /\ isArray = FALSE
  /\ elementType = 0
  /\ returned = [kind |-> "nothing", bytes |-> <<>>]

SpecFtdc == InitFtdc /\ [][NextFtdc]_vars

-----------------------------------------------------------------------------
(* readFTDCFile of src/parser.js, second definition (lines 570-691).  The    *)
(* one stack element is popped before the loop and is the item of every     *)
(* pass; its document is the variable object.  The statement after the      *)
(* loop, return false, has no step: the condition of the loop has           *)
(* stack.length >= 0 in it, which no stack makes false.                     *)

\* The passes the loop is followed for once the position is at the end of
\* the buffer or past it (each of them adds 2 to the position).
MaxPast == 3

\* A typed array as a value: its bytes under their indices.
bytesValue(bytes) ==
  Arr([k \in 1..Len(bytes) |-> Entry(ToString(k - 1), Num(bytes[k]))])

\* assert.equal(size, 75, 'Invalid BSON size') after the read of the size
\* (lines 583-586)
ftdcAssertSize(buf) ==
  LET sz == readUInt32LE(buf, 0)
  IN  IF sz.err # "none" THEN sz.err
      ELSE IF sz.val # Num(75) THEN "AssertionError: Invalid BSON size"
      ELSE "none"

\* The size, the assertions and the checks, index = 4, the element pushed
\* and popped (lines 583-610)
Ftdc2Start ==
  /\ pc = "start"
  /\ LET a == ftdcAssertSize(buffer)
         v == ftdcValidate(buffer)
     IN  IF a # "none" \/ v # "none"
         THEN /\ Throw(IF a # "none" THEN a ELSE v)
              /\ UNCHANGED <<size, index, st, item, object>>
         ELSE /\ size' = IntOf(readUInt32LE(buffer, 0).val)
              /\ index' = 4
              /\ st' = <<>>
              /\ item' = FirstElement
              /\ object' = Obj(<<>>)
              /\ pc' = "loop"
              /\ err' = err
  /\ UNCHANGED <<options, totalSize, currentObj, key, value, isArray, elementType,
                 returned, stackItem, buffer, decoderVars>>

\* One pass of the while loop (lines 611-688)
Ftdc2Element ==
  /\ pc = "loop"
  /\ index < Len(buffer) \/ Len(st) >= 0
  /\ index < Len(buffer) + 2 * MaxPast
  /\ LET et == ByteAt(buffer, index)
         keyName == toString(subarray(buffer, index + 1,
                                      indexAfterCString(buffer, index + 1) - 1))
         i == indexAfterCString(buffer, index + 1)
         r == ftdcSwitch(et, i, keyName, item, buffer, st, TRUE)
         sz == readUInt32LE(buffer, i)
     IN  /\ elementType' = et
         /\ IF et = 0
            THEN /\ index' = index + 1
                 /\ UNCHANGED <<pc, err, st, object>>
            ELSE IF item.level >= maxAllowableDepth
            THEN /\ index' = i
                 /\ object' = [object EXCEPT !.d = ObjSet(@, keyName, Null)]
                 /\ st' = st
                 /\ Throw("Error: Exceeds the limit of levels of nesting")
            ELSE /\ index' = r.index
                 /\ st' = r.st
                 /\ object' =
                      IF r.err # "none" \/ r.object = object
                      THEN [object EXCEPT !.d = ObjSet(@, keyName, Null)]
                      ELSE IF et = BSON_DOCUMENT
                      THEN [object EXCEPT !.d =
                              ObjSet(@, keyName,
                                     bytesValue(subarray(buffer, i, i + IntOf(sz.val))))]
                      ELSE r.object
                 /\ IF r.err # "none" THEN Throw(r.err) ELSE UNCHANGED <<pc, err>>
  /\ UNCHANGED <<options, size, totalSize, currentObj, key, value, isArray, returned,
                 item, stackItem, buffer, decoderVars>>

NextFtdc2 ==
  \/ Ftdc2Start
  \/ Ftdc2Element

\* Buffers of 75 bytes that declare the size 75: no element or one element
\* of every type, then bytes 0x00 up to the end.
RECURSIVE ZeroBytes(_)
ZeroBytes(n) == IF n <= 0 THEN <<>> ELSE <<0>> \o ZeroBytes(n - 1)

Padded(body) == U32(75) \o body \o ZeroBytes(71 - Len(body))

Ftdc2Inputs ==
  {Padded(<<>>)}
  \cup {Padded(Element(p[1], KeyA, p[2])) : p \in Payloads}
  \cup InvalidBuffers \cup {Document(<<>>)}

InitFtdc2 ==
  /\ DecoderIdle
  /\ FtdcIdle
  /\ pc = "start"
  /\ err = "none"
  /\ buffer \in Ftdc2Inputs
  /\ options = FALSE
  /\ index = 0
  /\ size = 0
  /\ totalSize = 0
  /\ object = Obj(<<>>)
  /\ currentObj = <<>>
  /\ key = Undefined
  /\ value = Undefined
  /\ st = <<>>
  /\ isArray = FALSE
  /\ elementType = 0
  /\ returned = [kind |-> "nothing", bytes |-> <<>>]

SpecFtdc2 == InitFtdc2 /\ [][NextFtdc2]_vars

-----------------------------------------------------------------------------
(* Properties.                                                             *)

Decoded == pc \in {"decoded", "restored", "done"}

Restored == pc \in {"restored", "done"}

\* The varints of the chunk tail, after the two counts.
Stream == SubSeq(buffer, 9, Len(buffer))

Zeros(n) == [k \in 1..n |-> BigOf(0)]

\* What the zero-run encoding denotes: a varint 0 with count k stands for
\* k + 1 zeros, every other varint for itself.
RECURSIVE ExpandRuns(_, _)
ExpandRuns(buf, p) ==
  IF isEmpty(buf, p) THEN <<>>
  ELSE LET v == decodeVarint(buf, p)
       IN  IF ~BigIsZero(v.val) THEN <<v.val>> \o ExpandRuns(buf, v.pos)
           ELSE LET k == decodeVarint(buf, v.pos)
                IN  Zeros(k.val.c + 1) \o ExpandRuns(buf, k.pos)

\* C1: once decodeDeltas has returned, deltas is the expansion of the whole
\* stream, every pair 0, k giving k + 1 zeros, also when the pair ends the
\* stream; the stream 00 05 01 00 06 gives 14 values.
C1_ZeroRunExpansion ==
  Decoded =>
    /\ deltas = ExpandRuns(buffer, 8)
    /\ (Stream = StreamS4 =>
          deltas = Zeros(6) \o <<BigOf(1)>> \o Zeros(7))

\* C2: every restored value after the first of its metric is the one before
\* it plus its delta (in 64-bit wrapping arithmetic).
C2_PrefixSum ==
  (Restored /\ Len(metrics) = numMetrics) =>
    \A m \in 0..(Len(metrics) - 1) : \A j \in 1..(numSamples - 1) :
      Wrap64(ArrGet(restored, m * numSamples + j)) =
        Wrap64(BigAdd(ArrGet(restored, m * numSamples + j - 1),
                      ArrGet(deltas, m * numSamples + j)))

\* C3: when every decoded delta is zero, every restored value is the base of
\* its metric.
C3_DeltaIdentity ==
  (Restored /\ Len(metrics) = numMetrics /\ \A k \in 1..Len(deltas) : BigIsZero(deltas[k])) =>
    \A m \in 0..(Len(metrics) - 1) : \A j \in 0..(numSamples - 1) :
      ArrGet(restored, m * numSamples + j) = metrics[m + 1]

\* C4: the first restored value of every metric is its base plus the first
\* delta of its row, restored[m * N_samples] = base[m] + delta[m * N_samples].
C4_FirstValue ==
  (Restored /\ numSamples >= 1) =>
    \A m \in 0..(Len(metrics) - 1) :
      ArrGet(restored, m * numSamples) =
        BigAdd(metrics[m + 1], ArrGet(deltas, m * numSamples))

\* A second metric whose row starts at a non-zero delta has been restored.
C4_Witness ==
  /\ pc = "restored"
  /\ numMetrics = 2
  /\ Len(metrics) = 2
  /\ numSamples = 2
  /\ ~BigIsZero(deltas[3])
  /\ metrics[1] # metrics[2]
  /\ restored[3] = BigAdd(metrics[2], deltas[3])

\* C5: a chunk with N_metrics * N_samples > 1,000,000 is rejected: none of
\* its deltas is decoded, no sample is emitted and decoding does not finish.
C5_CountGuard ==
  (pc \notin {"parsed", "flattened"} /\ numMetrics * numSamples > MaxProduct) =>
    /\ deltas = <<>>
    /\ restored = <<>>
    /\ emitted = <<>>
    /\ pc \notin {"decoded", "restored", "done"}

\* C6: when the number of bases differs from N_metrics, decoding fails and
\* emits no sample.
C6_MetricsCountMismatch ==
  (/\ pc \notin {"parsed", "flattened", "counts"}
   /\ numMetrics * numSamples <= MaxProduct
   /\ Len(metrics) # numMetrics) =>
    /\ emitted = <<>>
    /\ pc \notin {"restored", "done"}

\* C7: a chunk that declares N_samples = 0 (and so carries no varint) gives
\* an empty sample stream and no error.
C7_NoSamples ==
  (/\ pc \notin {"parsed", "flattened", "counts"}
   /\ Len(metrics) = numMetrics
   /\ numSamples = 0
   /\ Stream = <<>>) =>
    /\ err = "none"
    /\ emitted = <<>>

\* C8: the samples are emitted in the order s = 0, 1, ..., the value at
\* position m of sample s is restored[m * N_samples + s], every sample has
\* N_metrics values, and exactly N_samples samples have been emitted when
\* decoding is done.
C8_EmissionOrder ==
  /\ \A k \in 1..Len(emitted) :
       /\ Len(emitted[k]) = numMetrics
       /\ \A m \in 0..(numMetrics - 1) :
            emitted[k][m + 1] = ArrGet(restored, m * numSamples + (k - 1))
  /\ pc = "done" => Len(emitted) = numSamples

\* Two samples of two metrics have been emitted, and the transposition shows.
C8_Witness ==
  /\ pc = "done"
  /\ numMetrics = 2
  /\ numSamples = 2
  /\ Len(emitted) = 2
  /\ Len(restored) = 4
  /\ restored[2] # restored[3]
  /\ emitted[1] = <<restored[1], restored[3]>>
  /\ emitted[2] = <<restored[2], restored[4]>>

C10_Wrapping ==
  (Restored /\ Len(metrics) = numMetrics /\ numSamples >= 1) =>
    /\ \A k \in 1..Len(restored) : restored[k] # Undefined => InInt64(restored[k])
    /\ (referenceDocument = RefM /\ numSamples = 3 /\ Stream = StreamS5) =>
         restored = <<BigOf(105), BigOf(108), BigOf(106)>>

-----------------------------------------------------------------------------
(* The leaves of the reference document and the bases (SpecLeaves).         *)

\* The values of the leaves of a document, in document order.
RECURSIVE AllLeaves(_)
AllLeaves(doc) ==
  IF doc = <<>> THEN <<>>
  ELSE LET v == Head(doc).value
       IN  (IF v.t \in {"object", "array"} THEN AllLeaves(v.d) ELSE <<v>>)
           \o AllLeaves(Tail(doc))

\* A Timestamp leaf: the string that readTimestamp makes of a Timestamp.
IsTimestampLeaf(v) ==
  v.t = "string" /\ \E p \in TimestampPairs : v.s = TimestampText(p[1], p[2])

IsFractional(v) ==
  \/ v.t = "number" /\ v.s # ""
  \/ v.t = "string" /\ v.s \in FractionStrings

\* A leaf the flattener is to keep: a number, a boolean, a date, a
\* numeric-looking string or a Timestamp.
KeptByRule(v) ==
  \/ v.t \in {"number", "boolean", "date"}
  \/ v.t = "string" /\ numberStringPattern(v.s)
  \/ IsTimestampLeaf(v)

\* A string that starts with "Timestamp" and is not a Timestamp leaf.
IsTimestampLikeString(v) ==
  v.t = "string" /\ startsWithTimestamp(v.s) /\ ~IsTimestampLeaf(v)

FlattenErrors == {"TypeError: Cannot read properties of null"}

ExtractErrors ==
  {"TypeError: Cannot read properties of null (map)",
   "RangeError: cannot be converted to a BigInt",
   "SyntaxError: Cannot convert to BigInt"}

\* extractFromObj has been called (and has returned or thrown).
ExtractCalled == pc \notin {"parsed", "flattened", "counts"} /\ err \notin FlattenErrors

RECURSIVE SumSeq(_)
SumSeq(q) == IF q = <<>> THEN 0 ELSE Head(q) + SumSeq(Tail(q))

\* C11: Timestamp expansion.  Once the bases are extracted from a reference
\* document with no null and no fractional leaf, every kept leaf has
\* contributed: the number of bases is two for every Timestamp leaf plus one
\* for every other kept leaf, and extracting them raised no error.
C11_TimestampExpansion ==
  LET L == AllLeaves(referenceDocument)
      kept == SelectSeq(L, isValid)
  IN  (/\ ExtractCalled
       /\ \A k \in 1..Len(L) : L[k].t # "null" /\ ~IsFractional(L[k]))
      => /\ err \notin ExtractErrors
         /\ Len(metrics) =
              SumSeq([k \in 1..Len(kept) |-> IF IsTimestampLeaf(kept[k]) THEN 2 ELSE 1])

\* C12: Leaf filtering.  For a reference document with no fractional leaf
\* and no string that only starts like a Timestamp, flattening raises no
\* error whatever the other leaves are (null included), and after the bases
\* are extracted the flattened reference holds exactly the leaves that are a
\* number, a boolean, a date, a numeric-looking string or a Timestamp, in
\* document order, and no error was raised.
C12_LeafFiltering ==
  LET L == AllLeaves(referenceDocument)
  IN  (/\ pc # "parsed"
       /\ \A k \in 1..Len(L) : ~IsFractional(L[k]) /\ ~IsTimestampLikeString(L[k]))
      => /\ err \notin FlattenErrors
         /\ ExtractCalled =>
              /\ err \notin ExtractErrors
              /\ [k \in 1..Len(ref) |-> ref[k].value] = SelectSeq(L, KeptByRule)

\* The base of a kept leaf that is not a Timestamp, truncated toward zero.
TruncatedBase(v) ==
  IF v.t = "string"
  THEN IF v.s \in FractionStrings
       THEN LET n == FractionOfString[v.s] IN Big(n.a, n.b, n.c)
       ELSE BigOf(NumberOfString[v.s])
  ELSE Big(v.a, v.b, v.c)

\* C15: Fractional leaves are truncated.  For a reference document whose
\* leaves are all numbers or numeric-looking strings, one of them at least
\* with a fraction, extracting the bases raises no error and every base is
\* its leaf truncated toward zero.
C15_FractionTruncated ==
  LET L == AllLeaves(referenceDocument)
  IN  (/\ ExtractCalled
       /\ \A k \in 1..Len(L) :
            L[k].t = "number" \/ (L[k].t = "string" /\ numberStringPattern(L[k].s))
       /\ \E k \in 1..Len(L) : IsFractional(L[k]))
      => /\ err \notin ExtractErrors
         /\ metrics = [k \in 1..Len(L) |-> TruncatedBase(L[k])]

-----------------------------------------------------------------------------
(* parseBSON (SpecBSON).                                                    *)

\* The width of the payload at p of an element of a type, as the format
\* lays it out.
PayloadWidth(buf, p, type) ==
  CASE type \in {BSON_NUMBER, BSON_DATE, BSON_TIMESTAMP, BSON_LONG} -> 8
    [] type \in {BSON_STRING, BSON_CODE, BSON_SYMBOL} -> 4 + readUint32LE(buf, p).val
    [] type \in {BSON_DOCUMENT, BSON_ARRAY, BSON_CODE_W_SCOPE} -> readUint32LE(buf, p).val
    [] type = BSON_BINARY -> 4 + 1 + readUint32LE(buf, p).val
    [] type = BSON_OBJECTID -> 12
    [] type = BSON_BOOLEAN -> 1
    [] type = BSON_REGEXP -> indexAfterCString(buf, indexAfterCString(buf, p)) - p
    [] type = BSON_DBPOINTER -> 4 + readUint32LE(buf, p).val + 12
    [] type = BSON_INT32 -> 4
    [] type = BSON_DECIMAL128 -> 16
    [] OTHER -> 0

\* The elements of the document body that starts at p, up to its 0x00.
RECURSIVE WalkElements(_, _)
WalkElements(buf, p) ==
  IF p >= Len(buf) \/ buf[p + 1] = 0 THEN <<>>
  ELSE LET payload == indexAfterCString(buf, p + 1)
           end == payload + PayloadWidth(buf, payload, buf[p + 1])
       IN  <<[start |-> p, type |-> buf[p + 1],
              key |-> toString(subarray(buf, p + 1, payload - 1)),
              payload |-> payload, end |-> end]>>
           \o WalkElements(buf, end)

TopElements(buf) == WalkElements(buf, 4)

\* C13: Binary leaf.  The value parseBSON stores for a Binary element (here
\* the first element of a well-formed document) is not accepted as a numeric
\* leaf: isValid rejects it and stripNonNumericFields deletes it.
C13_BinaryNotNumeric ==
  [][(/\ buffer \in WellFormed
      /\ pc = "loop" /\ index = 4 /\ buffer[5] = BSON_BINARY
      /\ pc' = "loop")
     => /\ ~isValid(value')
        /\ isNaNOrEmpty(value'.s)]_vars

SkippedTypes ==
  {BSON_REGEXP, BSON_DBPOINTER, BSON_CODE, BSON_SYMBOL, BSON_CODE_W_SCOPE, BSON_DECIMAL128}

\* C18: No silent desynchronization.  When parseBSON reads an element of a
\* skipped type at the start of a top-level element of a well-formed
\* document, it fails with UnsupportedType or its position afterwards is at
\* or past the end of the payload of that element.
C18_NoDesynchronization ==
  [][\A k \in 1..Len(TopElements(buffer)) :
       LET e == TopElements(buffer)[k]
       IN  (/\ buffer \in WellFormed
            /\ pc = "loop" /\ index = e.start /\ e.type \in SkippedTypes)
           => \/ pc' = "threw" /\ err' = "UnsupportedType"
              \/ index' >= e.end]_vars

\* C19: End-offset discipline.  For the buffers whose nested elements do not
\* end at the declared end offset, while parseBSON has not failed the
\* position has not passed the end offset of a container on the stack (the
\* containers that can still be added to).
C19_EndOffset ==
  (buffer \in Malformed /\ pc \in {"loop", "returned"})
  => \A k \in 1..Len(st) : index <= st[k].size

\* C20: Cursor bound.  In every state of parseBSON the position is at most
\* the length of the buffer.
C20_CursorBound == pc \in {"start", "loop", "returned", "threw"} => index <= Len(buffer)

\* The types whose value parseBSON stores, with a payload of the width it
\* steps over (a String of one-byte characters).
PlainTypes ==
  {BSON_NUMBER, BSON_STRING, BSON_OBJECTID, BSON_BOOLEAN, BSON_DATE, BSON_NULL,
   BSON_INT32, BSON_TIMESTAMP, BSON_LONG}

\* C14: Insertion order.  The object parsed from a well-formed document of
\* leaf elements enumerates its keys in the order of the elements in the
\* buffer, and so does the flattened reference built from it.
C14_InsertionOrder ==
  LET E == TopElements(buffer)
      flat == flattenObject(object.d, "", <<>>)
  IN  (/\ buffer \in WellFormed
       /\ pc = "returned" /\ returned.kind = "object"
       /\ \A k \in 1..Len(E) : E[k].type \in PlainTypes)
      => /\ [k \in 1..Len(object.d) |-> object.d[k].key] = [k \in 1..Len(E) |-> E[k].key]
         /\ flat.err = "none" =>
              [k \in 1..Len(flat.result) |-> flat.result[k].key] = [k \in 1..Len(E) |-> E[k].key]

\* C17: FTDC option.  With options.FTDC true, when parseBSON reads the first
\* Binary element of the top level of a well-formed document (the elements
\* before it are leaves), it returns the carrier at once and adds nothing to
\* the object.
C17_FtdcOption ==
  [][\A k \in 1..Len(TopElements(buffer)) :
       LET E == TopElements(buffer)
       IN  (/\ buffer \in WellFormed
            /\ options
            /\ pc = "loop" /\ index = E[k].start /\ E[k].type = BSON_BINARY
            /\ \A j \in 1..(k - 1) : E[j].type \in PlainTypes)
           => /\ pc' = "returned"
              /\ returned'.kind = "carrier"
              /\ object' = object]_vars

\* The nesting of a parsed value: for every entry its key, whether it is a
\* document, an array or a leaf, and the nesting of its own entries.
RECURSIVE Nesting(_)
Nesting(v) ==
  {<<v.d[k].key,
     IF v.d[k].value.t \in {"object", "array"} THEN v.d[k].value.t ELSE "leaf",
     IF v.d[k].value.t \in {"object", "array"} THEN Nesting(v.d[k].value) ELSE {}>> :
   k \in 1..Len(v.d)}

\* The nesting of the input: the same of the elements of the document body
\* that starts at p, an element of a skipped type giving no entry.
RECURSIVE InputNesting(_, _)
InputNesting(buf, p) ==
  LET E == WalkElements(buf, p)
      stored == {k \in 1..Len(E) : E[k].type \notin SkippedTypes \cup {BSON_UNDEFINED}}
  IN  {<<E[k].key,
         CASE E[k].type = BSON_DOCUMENT -> "object"
           [] E[k].type = BSON_ARRAY -> "array"
           [] OTHER -> "leaf",
         IF E[k].type \in {BSON_DOCUMENT, BSON_ARRAY}
         THEN InputNesting(buf, E[k].payload + 4)
         ELSE {}>> :
       k \in stored}

\* The types whose elements are stored with a payload of known width, and
\* the containers.
StoredTypes == PlainTypes \cup {BSON_DOCUMENT, BSON_ARRAY}

\* C16: nesting.  For every well-formed document whose elements are of the
\* stored types, the parser returns the object, and the object has the
\* nesting of the input: every element is an entry of the container it was
\* written in, also the elements that follow a nested document or array.
C16_Nesting ==
  (/\ buffer \in WellFormed
   /\ \A k \in 1..Len(TopElements(buffer)) : TopElements(buffer)[k].type \in StoredTypes
   /\ pc \in {"returned", "threw"})
  => /\ pc = "returned" /\ returned.kind = "object"
     /\ Nesting(object) = InputNesting(buffer, 4)

\* The widths of the scalar payloads parseBSON reads.
ScalarWidth ==
  (BSON_NUMBER :> 8 @@ BSON_OBJECTID :> 12 @@ BSON_BOOLEAN :> 1 @@ BSON_DATE :> 8
   @@ BSON_INT32 :> 4 @@ BSON_TIMESTAMP :> 8 @@ BSON_LONG :> 8)

\* No 0x00 in buf from offset i on.
NoTerminatorFrom(buf, i) == \A j \in (i + 1)..Len(buf) : buf[j] # 0

\* C21: out-of-range reads fail.  When parseBSON reads an element whose key
\* has no 0x00 before the end of the buffer, or whose scalar payload extends
\* past the end of the buffer (a Boolean at offset = buffer length included),
\* the pass fails with OutOfRange, and the position is not moved past the
\* start of the value that could not be read.
C21_OutOfRangeReads ==
  [][LET et == buffer[index + 1]
         p == indexAfterCString(buffer, index + 1)
     IN  (/\ pc = "loop" /\ index < Len(buffer) /\ et # 0
          /\ \/ NoTerminatorFrom(buffer, index + 1)
             \/ et \in DOMAIN ScalarWidth /\ p + ScalarWidth[et] > Len(buffer))
         => /\ pc' = "threw" /\ err' = "OutOfRange"
            /\ index' <= p]_vars

\* C22: zero-run equivalence.  The streams 00 00 00 00 00 and 00 04 decode
\* to the same list: once decodeDeltas has returned on either, deltas is five
\* zeros.
C22_ZeroRunEquivalence ==
  (Stream \in {StreamFiveZeros, StreamZeroRun} /\ Decoded) => deltas = Zeros(5)

\* The n low bytes of the two's-complement pattern of an integer, the least
\* significant first.
PatternBytes(v, n) ==
  SubSeq(<<v.c % 256, (v.c \div 2^8) % 256, (v.c \div 2^16) % 256,
           (v.c \div 2^24) + (v.b % 16) * 16,
           (v.b \div 2^4) % 256, (v.b \div 2^12) % 256, (v.b \div 2^20) % 256,
           v.a % 256>>, 1, n)

InUInt32(v) == v.a = 0 /\ v.b < 16

InInt32(v) == (v.a = 0 /\ v.b < 8) \/ (v.a = -1 /\ v.b >= Limb - 8)

\* C24: little-endian integer reads.  readUInt32LE returns a number in
\* [0, 2^32 - 1], readInt32LE a number in [-2^31, 2^31 - 1] and readBigInt64LE
\* a BigInt in [-2^63, 2^63 - 1], each the integer whose two's-complement
\* bytes, least significant first, are the bytes read.
C24_LittleEndianReads ==
  /\ pc = "u32" =>
       /\ value.t = "number" /\ InUInt32(value)
       /\ PatternBytes(value, 4) = SubSeq(buffer, index + 1, index + 4)
  /\ pc = "i32" =>
       /\ value.t = "number" /\ InInt32(value)
       /\ PatternBytes(value, 4) = SubSeq(buffer, index + 1, index + 4)
  /\ pc = "i64" =>
       /\ value.t = "bigint" /\ InInt64(value)
       /\ PatternBytes(value, 8) = SubSeq(buffer, index + 1, index + 8)

\* A negative 64-bit value has been read from bytes that are not all alike.
C24_Witness ==
  /\ pc = "i64"
  /\ buffer[8] = 255 /\ buffer[1] = 128 /\ buffer[4] = 127 /\ buffer[5] = 0
  /\ value.a = -1

\* The first four bytes are a size n of at least 5 and at most the length
\* of the buffer, and the byte at offset n - 1 is 0x00.
ValidDocument(buf) ==
  /\ Len(buf) >= 4
  /\ \E n \in 5..Len(buf) : SubSeq(buf, 1, 4) = U32(n) /\ buf[n] = 0

\* C23: size and terminator validation.  For a buffer whose declared size is
\* below 5 or above its length, or whose byte at offset size - 1 is not 0x00,
\* readFTDCFile throws before it reads an element: it is never in its loop,
\* its position is never moved and nothing is written to the object.
C23_Validation ==
  ~ValidDocument(buffer) =>
    /\ pc \in {"start", "threw"}
    /\ index = 0 /\ elementType = 0 /\ st = <<>> /\ object = Obj(<<>>)

\* A buffer with a size inside it and another byte than 0x00 at size - 1 has
\* been rejected.
C23_Witness ==
  /\ pc = "threw"
  /\ buffer = <<8, 0, 0, 0, 10, 97, 0, 10, 0>>
  /\ err = "BSONError: Invalid BSON terminator"

\* The numeric leaves of a document in document order, each with its path
\* and its column: [leaves, next], counting from column col.  A Timestamp
\* is one leaf of two columns.
RECURSIVE LeafPaths(_, _, _)
LeafPaths(entries, prefix, col) ==
  IF entries = <<>> THEN [leaves |-> <<>>, next |-> col]
  ELSE LET e == Head(entries)
           here == Append(prefix, e.key)
           first == IF e.value.t \in {"object", "array"}
                    THEN LeafPaths(e.value.d, here, col)
                    ELSE [leaves |-> <<[path |-> here, col |-> col]>>,
                          next |-> IF e.value.t = "string" THEN col + 2 ELSE col + 1]
           rest == LeafPaths(Tail(entries), prefix, first.next)
       IN  [leaves |-> first.leaves \o rest.leaves, next |-> rest.next]

\* The value at a path of a document, undefined where the path is not there.
RECURSIVE LeafAt(_, _)
LeafAt(entries, path) ==
  IF \A i \in 1..Len(entries) : entries[i].key # Head(path) THEN Undefined
  ELSE LET v == entries[CHOOSE i \in 1..Len(entries) : entries[i].key = Head(path)].value
       IN  IF Len(path) = 1 THEN v
           ELSE IF v.t \in {"object", "array"} THEN LeafAt(v.d, Tail(path))
           ELSE Undefined

\* C25: sample rebuild by position.  When a sample's document is built, the
\* k-th numeric leaf of the reference in document order (a Timestamp counting
\* as two columns) holds metrics[k] at its own path afterwards, also a leaf
\* that comes after a nested document and a leaf inside a nested document.
C25_UpdateByPosition ==
  [][(pc = "restored" /\ docs' # docs) =>
       LET leaves == LeafPaths(referenceDocument, <<>>, 0).leaves
       IN  \A k \in 1..Len(leaves) :
             LeafAt(referenceDocument', leaves[k].path) = ArrGet(metrics', leaves[k].col)]_vars

\* The position after the key of the element whose type byte is at index.
ValueStart == indexAfterCString(buffer, index + 1)

\* C26: Binary element width.  With FTDC = false, a pass of the loop of
\* parseBSON that handles a Binary element of declared length L and goes on
\* leaves the position 4 + 1 + L bytes after the start of the value.
C26_BinaryWidth ==
  [][(/\ pc = "loop" /\ pc' = "loop"
      /\ ~options
      /\ index < Len(buffer) /\ buffer[index + 1] = BSON_BINARY)
     => index' = ValueStart + 4 + 1 + readUint32LE(buffer, ValueStart).val]_vars

\* C27: String element width.  A pass of the loop of parseBSON that handles
\* a String element of declared length L and goes on leaves the position
\* 4 + L bytes after the start of the value, so that the byte read next as
\* an element type is the byte after the string's 0x00, whatever the string.
C27_StringWidth ==
  [][(/\ pc = "loop" /\ pc' = "loop"
      /\ index < Len(buffer) /\ buffer[index + 1] = BSON_STRING)
     => index' = ValueStart + 4 + readUint32LE(buffer, ValueStart).val]_vars

\* C28: parseBSON terminates on every buffer.  Every pass of its main loop
\* leaves the position at least one byte further, the position of a running
\* loop is below the length of the buffer when a pass starts, and the call
\* ends: it returns or throws.
C28_Terminates ==
  /\ [][(pc = "loop" /\ pc' = "loop") => (index < Len(buffer) /\ index' >= index + 1)]_vars
  /\ <>(pc \in {"returned", "threw"})

\* parseBSON has returned from a buffer that is not well formed, with the
\* position past the end of the buffer.
C28_Witness ==
  /\ pc = "returned" /\ returned.kind = "object"
  /\ buffer \in Malformed
  /\ index > Len(buffer)

\* C29: readFTDCFile returns.  For a buffer that has passed the checks of
\* the size and of the terminator, the loop is left once the position is at
\* the end of the buffer and the stack of nested documents is empty: the
\* step taken from there is the return.
C29_LoopExits ==
  [][(pc = "loop" /\ index >= Len(buffer) /\ st = <<>>) => pc' = "returned"]_vars

====
